---- MODULE Spec2Model ----
(***************************************************************************)
(* A model of the two incremental engines of the linuxkerneldev extension: *)
(* the Kconfig expression evaluator, Config/Scope graph and line parser    *)
(* (src/src/kconfig.ts, evaluate.ts and parse.ts) and the devicetree       *)
(* context with its reparse protocol (src/src/dts.ts).                     *)
(*                                                                         *)
(* Objects are heap cells: a file, scope, entry, config or comment is a    *)
(* position in a sequence, and a reference is that position, so object     *)
(* identity (===, indexOf, instanceof) is the identity of positions.       *)
(***************************************************************************)
EXTENDS Integers, Sequences, FiniteSets, TLC

(***************************************************************************)
(* ConfigValue = string | number | boolean, as a record with every field   *)
(* present so that values of different types can be compared.              *)
(***************************************************************************)
VB(b) == [k |-> "bool", b |-> b, n |-> 0, s |-> ""]
VN(n) == [k |-> "num", b |-> FALSE, n |-> n, s |-> ""]
VS(s) == [k |-> "str", b |-> FALSE, n |-> 0, s |-> s]

\* JavaScript truthiness of a ConfigValue (!!v).
Truthy(v) ==
    CASE v.k = "bool" -> v.b
      [] v.k = "num" -> v.n # 0
      [] OTHER -> v.s # ""

\* Number(v) for the relational operators; a non-numeric string is NaN,
\* written -1 here and excluded by Comparable.
ToNumber(v) ==
    CASE v.k = "bool" -> (IF v.b THEN 1 ELSE 0)
      [] v.k = "num" -> v.n
      [] OTHER -> (IF v.s = "" THEN 0 ELSE -1)

Comparable(v) == v.k # "str" \/ v.s = ""

(***************************************************************************)
(* Tokens.  The raw text of an expression is kept as the sequence of its   *)
(* lexemes; tokenizeExpression classifies each lexeme.                     *)
(***************************************************************************)
VarNames == {"A", "B", "C", "D", "S", "X", "Y", "Z"}
NumberLexemes == {"0", "1", "2"}
NoToken == [kind |-> "", value |-> ""]

NumberOf(s) == CASE s = "0" -> 0 [] s = "1" -> 1 [] s = "2" -> 2 [] OTHER -> 0

ConstantTokenKind(s) ==
    CASE s = "!=" -> "NEQUAL"
      [] s = "!" -> "NOT"
      [] s = "&&" -> "AND"
      [] s = "||" -> "OR"
      [] s = "(" -> "OPEN_PARENTHESIS"
      [] s = ")" -> "CLOSING_PARENTHESIS"
      [] s = ">=" -> "GREATER_EQUAL"
      [] s = "<=" -> "LESS_EQUAL"
      [] s = "=" -> "EQUAL"
      [] s = ">" -> "GREATER"
      [] s = "<" -> "LESS"
      [] OTHER -> ""

\* The token of one lexeme; kind "" stands for `Unknown symbol`.
TokenOf(s) ==
    IF ConstantTokenKind(s) # "" THEN [kind |-> ConstantTokenKind(s), value |-> s]
    ELSE IF s \in {"y", "m", "n"} THEN [kind |-> "TRISTATE", value |-> s]
    ELSE IF s \in NumberLexemes THEN [kind |-> "NUMBER", value |-> s]
    ELSE IF s \in VarNames THEN [kind |-> "VAR", value |-> s]
    ELSE IF s = "$()" THEN [kind |-> "INVALID", value |-> s]
    ELSE IF s = "\"\"" THEN [kind |-> "STRING", value |-> ""]
    ELSE NoToken

\* tokenizeExpression: ok = FALSE when it throws ExpressionError.
tokenizeExpression(raw) ==
    LET toks == [i \in 1..Len(raw) |-> TokenOf(raw[i])]
    IN [ok |-> \A i \in 1..Len(raw) : toks[i].kind # "", tokens |-> toks]

\* tokenOrder.indexOf(kind)
tokenOrder ==
    <<"VAR", "STRING", "NUMBER", "TRISTATE", "NOT", "OR", "AND",
      "GREATER_EQUAL", "LESS_EQUAL", "GREATER", "LESS", "NEQUAL", "EQUAL">>

TokenScore(kind) ==
    IF \E i \in 1..Len(tokenOrder) : tokenOrder[i] = kind
    THEN (CHOOSE i \in 1..Len(tokenOrder) : tokenOrder[i] = kind) - 1
    ELSE -1

operatorFromToken(t) ==
    CASE t.kind = "VAR" -> "VAR"
      [] t.kind \in {"NUMBER", "STRING", "TRISTATE"} -> "LITERAL"
      [] t.kind \in {"OPEN_PARENTHESIS", "CLOSING_PARENTHESIS"} -> "PARENTHESIS"
      [] t.kind = "INVALID" -> "UNKNOWN"
      [] OTHER -> t.kind

\* The arity table of makeExpr; -1 is `undefined`.
OperatorArity(op) ==
    CASE op \in {"VAR", "UNKNOWN"} -> 0
      [] op \in {"NOT", "PARENTHESIS"} -> 1
      [] op = "LITERAL" -> -1
      [] OTHER -> 2

\* Parenthesis depth after the first i tokens.
RECURSIVE DepthAfter(_, _)
DepthAfter(tokens, i) ==
    IF i = 0 THEN 0
    ELSE DepthAfter(tokens, i - 1)
         + (CASE tokens[i].kind = "OPEN_PARENTHESIS" -> 1
              [] tokens[i].kind = "CLOSING_PARENTHESIS" -> -1
              [] OTHER -> 0)

IsParen(t) == t.kind \in {"OPEN_PARENTHESIS", "CLOSING_PARENTHESIS"}

\* The positions the forEach of makeExpr scores: non-parenthesis tokens at depth 0.
Candidates(tokens) ==
    {i \in 1..Len(tokens) : ~IsParen(tokens[i]) /\ DepthAfter(tokens, i) = 0}

\* best: the first candidate with the highest score (score > best.score).
BestIndex(tokens) ==
    CHOOSE i \in Candidates(tokens) :
        \A j \in Candidates(tokens) :
            \/ TokenScore(tokens[j].kind) < TokenScore(tokens[i].kind)
            \/ (TokenScore(tokens[j].kind) = TokenScore(tokens[i].kind) /\ i <= j)

Expression(op, operands, v) == [operator |-> op, operands |-> operands, var |-> v]
ExprError == Expression("ERROR", <<>>, NoToken)
FalseLiteral == Expression("LITERAL", <<>>, [kind |-> "TRISTATE", value |-> "n"])

Slice(s, from, to) == IF from > to THEN <<>> ELSE SubSeq(s, from, to)

\* makeExpr; the result ExprError stands for a thrown error (an ExpressionError,
\* or the RangeError of the unbounded recursion on an empty token list).
RECURSIVE makeExpr(_)
makeExpr(tokens) ==
    IF tokens = <<>> THEN ExprError
    ELSE IF \E i \in 1..Len(tokens) : DepthAfter(tokens, i) < 0 THEN ExprError
    ELSE IF DepthAfter(tokens, Len(tokens)) # 0 THEN ExprError
    ELSE IF Candidates(tokens) = {}
         THEN LET inner == makeExpr(Slice(tokens, 2, Len(tokens) - 1))
              IN IF inner = ExprError THEN ExprError
                 ELSE Expression("PARENTHESIS", <<inner>>, NoToken)
    ELSE LET b == BestIndex(tokens)
             t == tokens[b]
             op == operatorFromToken(t)
             left == Slice(tokens, 1, b - 1)
             right == Slice(tokens, b + 1, Len(tokens))
             groups == (IF b > 1 THEN <<left>> ELSE <<>>)
                       \o (IF b < Len(tokens) THEN <<right>> ELSE <<>>)
         IN IF op = "VAR" THEN Expression("VAR", <<>>, t)
            ELSE IF op = "LITERAL" THEN Expression("LITERAL", <<>>, t)
            ELSE IF OperatorArity(op) # Len(groups) THEN ExprError
            ELSE LET operands == [g \in 1..Len(groups) |-> makeExpr(groups[g])]
                 IN IF \E g \in 1..Len(groups) : operands[g] = ExprError
                    THEN ExprError
                    ELSE Expression(op, operands, NoToken)

\* createExpression: undefined (here NoExpression) for empty text, the constant
\* false expression when tokenizing or parsing throws.
NoExpression == Expression("NONE", <<>>, NoToken)

createExpression(raw) ==
    IF raw = <<>> THEN NoExpression
    ELSE LET tk == tokenizeExpression(raw)
         IN IF ~tk.ok THEN FalseLiteral
            ELSE IF makeExpr(tk.tokens) = ExprError THEN FalseLiteral
            ELSE makeExpr(tk.tokens)

(***************************************************************************)
(* The Kconfig object graph.                                               *)
(***************************************************************************)
LineRange(start, end) == [start |-> start, end |-> end]
Ref(t, i) == [t |-> t, i |-> i]
Diagnostic(line, msg) == [line |-> line, msg |-> msg]
IdElem(type, name) == [t |-> type, n |-> name]

\* new ParsedFile(repo, uri, env, scope, parent); 0 is undefined.
ParsedFile(uri, scope, parent) ==
    [uri |-> uri, scope |-> scope, parent |-> parent, version |-> 0,
     inclusions |-> <<>>, entries |-> <<>>, diags |-> <<>>]

\* The Scope constructor: id is type(name), prefixed by the parent's id.
Scope(h, type, name, line, file, parent) ==
    [type |-> type, name |-> name, lines |-> LineRange(line, line), file |-> file,
     parent |-> parent,
     id |-> (IF parent # 0 THEN h.scopes[parent].id ELSE <<>>) \o <<IdElem(type, name)>>,
     children |-> <<>>, dependencies |-> <<>>, expr |-> NoExpression,
     rawExpr |-> <<>>, choice |-> 0]

IfScope(h, expression, line, file, parent) ==
    [Scope(h, "if", expression, line, file, parent)
        EXCEPT !.expr = createExpression(expression), !.rawExpr = expression]

MenuScope(h, prompt, line, file, parent) ==
    Scope(h, "menu", <<prompt>>, line, file, parent)

ChoiceScope(h, choice) ==
    [Scope(h, "choice", <<h.configs[h.entries[choice].config].name>>,
           h.entries[choice].lines.start, h.entries[choice].file,
           h.entries[choice].scope)
        EXCEPT !.choice = choice]

\* The ConfigEntry fields; the constructor's pushes are in NewConfigEntry.
ConfigEntry(config, line, file, scope) ==
    [config |-> config, lines |-> LineRange(line, line), file |-> file,
     scope |-> scope, type |-> "", text |-> "", prompt |-> FALSE,
     dependencies |-> <<>>, selects |-> <<>>, defaults |-> <<>>,
     isChoice |-> FALSE, choices |-> <<>>, optional |-> FALSE]

Config(name, kind) == [name |-> name, kind |-> kind, entries |-> <<>>]

Comment(text, file, line) == [text |-> text, file |-> file, line |-> line]

\* The Repository constructor: an empty symbol table and the root scope, whose
\* file is the commandline:// file created with an undefined scope.
Repository ==
    LET h0 == [files |-> <<ParsedFile("commandline://", 0, 0)>>, scopes |-> <<>>,
               entries |-> <<>>, configs |-> <<>>, comments |-> <<>>,
               table |-> <<>>, root |-> 0]
    IN [h0 EXCEPT !.scopes = <<Scope(h0, "root", <<"ROOT">>, 0, 1, 0)>>]

RootScope == 1

\* repo.configs[name], 0 when the name is not a key.
RECURSIVE FindInTable(_, _, _)
FindInTable(h, name, i) ==
    IF i > Len(h.table) THEN 0
    ELSE IF h.configs[h.table[i]].name = name THEN h.table[i]
    ELSE FindInTable(h, name, i + 1)

Lookup(h, name) == FindInTable(h, name, 1)

\* Array.prototype.indexOf, 1-based; 0 is -1.
RECURSIVE IndexFrom(_, _, _)
IndexFrom(s, x, i) ==
    IF i > Len(s) THEN 0 ELSE IF s[i] = x THEN i ELSE IndexFrom(s, x, i + 1)

IndexOf(s, x) == IndexFrom(s, x, 1)

RemoveAt(s, i) == SubSeq(s, 1, i - 1) \o SubSeq(s, i + 1, Len(s))

\* splice(i, 1) with the index indexOf returned: -1 removes the last element.
SpliceIndexOf(s, x) ==
    IF IndexOf(s, x) # 0 THEN RemoveAt(s, IndexOf(s, x))
    ELSE IF s = <<>> THEN s ELSE RemoveAt(s, Len(s))

Max(a, b) == IF a >= b THEN a ELSE b

\* ConfigEntry.extend
extend(h, e, lineNumber) ==
    [h EXCEPT !.entries[e].lines.end = Max(@, lineNumber)]

\* new ConfigEntry(...): push on the scope's children and on config.entries.
NewConfigEntry(h, rec) ==
    LET e == Len(h.entries) + 1
        h1 == [h EXCEPT !.entries = Append(@, rec)]
        h2 == IF rec.scope # 0
              THEN [h1 EXCEPT !.scopes[rec.scope].children = Append(@, Ref("entry", e))]
              ELSE h1
    IN [h2 EXCEPT !.configs[rec.config].entries = Append(@, e)]

\* Scope.addScope: an existing child scope with the same id and file is reused.
ExistingScope(h, parent, s) ==
    LET hits == {i \in 1..Len(h.scopes[parent].children) :
                    /\ h.scopes[parent].children[i].t = "scope"
                    /\ h.scopes[h.scopes[parent].children[i].i].id = s.id
                    /\ h.scopes[h.scopes[parent].children[i].i].file = s.file}
    IN IF hits = {} THEN 0
       ELSE h.scopes[parent].children[CHOOSE i \in hits : \A j \in hits : i <= j].i

\* setScope of parseRaw; yields the heap and the scope that becomes current.
setScope(h, scope, s) ==
    IF scope = 0
    THEN [h |-> [h EXCEPT !.scopes = Append(@, s)], scope |-> Len(h.scopes) + 1]
    ELSE IF ExistingScope(h, scope, s) # 0
    THEN [h |-> [h EXCEPT !.scopes[ExistingScope(h, scope, s)].lines = s.lines],
          scope |-> ExistingScope(h, scope, s)]
    ELSE [h |-> [h EXCEPT !.scopes = Append(@, s),
                          !.scopes[scope].children =
                              Append(@, Ref("scope", Len(h.scopes) + 1))],
          scope |-> Len(h.scopes) + 1]

AddDiag(h, f, line, msg) ==
    [h EXCEPT !.files[f].diags = Append(@, Diagnostic(line, msg))]

\* unterminatedScope: the type is the text of the id before its first '('.
unterminatedScope(h, f, s) ==
    IF s = 0 THEN h
    ELSE AddDiag(h, f, h.scopes[s].lines.start, "Unterminated " \o h.scopes[s].id[1].t)

(***************************************************************************)
(* Kconfig text.  A line is kept as what the line regexes of parseRaw      *)
(* extract from it: its kind k, a name/prompt/path a, a prompt p, the      *)
(* lexemes e of its expression and the lexemes v of a default value.       *)
(***************************************************************************)
KLine(k, a, p, e, v) == [k |-> k, a |-> a, p |-> p, e |-> e, v |-> v]
LConfig(name) == KLine("config", name, "", <<>>, <<>>)
LType(type, prompt) == KLine("type", type, prompt, <<>>, <<>>)
LDepends(e) == KLine("depends", "", "", e, <<>>)
LDefault(v, e) == KLine("default", "", "", e, v)
LSelect(name, e) == KLine("select", name, "", e, <<>>)
LIf(e) == KLine("if", "", "", e, <<>>)
LEndif == KLine("endif", "", "", <<>>, <<>>)
LMenu(prompt) == KLine("menu", prompt, "", <<>>, <<>>)
LEndmenu == KLine("endmenu", "", "", <<>>, <<>>)
LChoice(name) == KLine("choice", name, "", <<>>, <<>>)
LEndchoice == KLine("endchoice", "", "", <<>>, <<>>)
LSource(uri) == KLine("source", uri, "", <<>>, <<>>)
LComment(text) == KLine("comment", text, "", <<>>, <<>>)
LInvalid == KLine("invalid", "", "", <<>>, <<>>)

\* The state of the line loop of parseRaw: the heap, the file being parsed and
\* the locals scope, entry and choice (0 is null/undefined).
PState(h, f, scope, entry, choice) ==
    [h |-> h, f |-> f, scope |-> scope, entry |-> entry, choice |-> choice]

ScopeIs(h, s, type) == s # 0 /\ h.scopes[s].type = type

\* `config NAME` / `menuconfig NAME`
ParseConfig(st, ln, lineNumber) ==
    LET h == st.h
        found == Lookup(h, ln.a)
        c == IF found # 0 THEN found ELSE Len(h.configs) + 1
        h1 == IF found # 0 THEN h
              ELSE [h EXCEPT !.configs = Append(@, Config(ln.a, "config")),
                             !.table = Append(@, c)]
        e == Len(h1.entries) + 1
        h2 == NewConfigEntry(h1, ConfigEntry(c, lineNumber, st.f, st.scope))
        h3 == [h2 EXCEPT !.files[st.f].entries = Append(@, e)]
        h4 == IF st.choice # 0
              THEN [h3 EXCEPT !.entries[st.choice].choices = Append(@, c)]
              ELSE h3
    IN [st EXCEPT !.h = h4, !.entry = e]

\* `source "path"`: glob.sync finds the file when it exists on disk.
ParseSource(st, ln, lineNumber, disk) ==
    IF ln.a \in DOMAIN disk
    THEN LET nf == Len(st.h.files) + 1
         IN [st EXCEPT !.h = [st.h EXCEPT
                !.files = Append(@, ParsedFile(ln.a, st.scope, st.f)),
                !.files[st.f].inclusions = Append(@, [line |-> lineNumber, file |-> nf])]]
    ELSE [st EXCEPT !.h = AddDiag(st.h, st.f, lineNumber, "Unable to resolve include")]

\* `choice [NAME]`: a ChoiceEntry of a fresh Config that is not put in the table.
ParseChoice(st, ln, lineNumber) ==
    LET h == st.h
        name == IF ln.a # "" THEN ln.a
                ELSE "<choice @ " \o h.files[st.f].uri \o ":" \o ToString(lineNumber) \o ">"
        c == Len(h.configs) + 1
        e == Len(h.entries) + 1
        h1 == [h EXCEPT !.configs = Append(@, Config(name, "choice"))]
        h2 == NewConfigEntry(h1, [ConfigEntry(c, lineNumber, st.f, st.scope)
                                    EXCEPT !.isChoice = TRUE])
        r == setScope(h2, st.scope, ChoiceScope(h2, e))
    IN [st EXCEPT !.h = r.h, !.scope = r.scope, !.entry = e, !.choice = e]

\* endchoice / endif / endmenu
ParseEnd(st, lineNumber, type, msg, clearChoice) ==
    LET st1 == [st EXCEPT !.entry = 0, !.choice = IF clearChoice THEN 0 ELSE @]
    IN IF ScopeIs(st.h, st.scope, type)
       THEN [st1 EXCEPT !.h = [st.h EXCEPT !.scopes[st.scope].lines.end = lineNumber],
                        !.scope = st.h.scopes[st.scope].parent]
       ELSE [st1 EXCEPT !.h = unterminatedScope(AddDiag(st.h, st.f, lineNumber, msg),
                                                st.f, st.scope)]

ParseIf(st, ln, lineNumber) ==
    LET r == setScope(st.h, st.scope, IfScope(st.h, ln.e, lineNumber, st.f, st.scope))
    IN [st EXCEPT !.h = r.h, !.scope = r.scope, !.entry = 0]

ParseMenu(st, ln, lineNumber) ==
    LET r == setScope(st.h, st.scope, MenuScope(st.h, ln.a, lineNumber, st.f, st.scope))
    IN [st EXCEPT !.h = r.h, !.scope = r.scope, !.entry = 0]

\* `depends on EXPR`
ParseDepends(st, ln, lineNumber) ==
    IF st.entry # 0
    THEN LET h1 == extend(st.h, st.entry, lineNumber)
             h2 == IF \E i \in 1..Len(h1.entries[st.entry].dependencies) :
                          h1.entries[st.entry].dependencies[i] = ln.e
                   THEN AddDiag(h1, st.f, lineNumber, "Duplicate dependency")
                   ELSE h1
         IN [st EXCEPT !.h = [h2 EXCEPT !.entries[st.entry].dependencies = Append(@, ln.e)]]
    ELSE IF ScopeIs(st.h, st.scope, "menu")
    THEN [st EXCEPT !.h = [st.h EXCEPT !.scopes[st.scope].dependencies = Append(@, ln.e)]]
    ELSE [st EXCEPT !.h = unterminatedScope(
                AddDiag(st.h, st.f, lineNumber, "Unexpected depends on"), st.f, st.scope)]

\* `comment "text"`
ParseComment(st, ln, lineNumber) ==
    LET c == Len(st.h.comments) + 1
        h1 == [st.h EXCEPT !.comments = Append(@, Comment(ln.a, st.f, lineNumber))]
    IN [st EXCEPT !.h = IF st.scope # 0
                        THEN [h1 EXCEPT !.scopes[st.scope].children =
                                            Append(@, Ref("comment", c))]
                        ELSE h1]

NoEntryDiag(st, lineNumber) ==
    [st EXCEPT !.h = AddDiag(st.h, st.f, lineNumber, "Token is only valid in an entry context")]

\* `bool|tristate|string|hex|int ["prompt"]`
ParseType(st, ln, lineNumber) ==
    IF st.entry = 0 THEN NoEntryDiag(st, lineNumber)
    ELSE [st EXCEPT !.h = extend([st.h EXCEPT !.entries[st.entry].type = ln.a,
                                              !.entries[st.entry].text = ln.p,
                                              !.entries[st.entry].prompt =
                                                  IF ln.p # "" THEN TRUE ELSE @],
                                 st.entry, lineNumber)]

\* `select NAME [if EXPR]` and `imply NAME [if EXPR]`: both go to entry.selects.
ParseSelect(st, ln, lineNumber) ==
    IF st.entry = 0 THEN NoEntryDiag(st, lineNumber)
    ELSE [st EXCEPT !.h = extend([st.h EXCEPT !.entries[st.entry].selects =
                Append(@, [name |-> ln.a, condition |-> createExpression(ln.e)])],
                                 st.entry, lineNumber)]

\* `default VALUE [if EXPR]`
ParseDefault(st, ln, lineNumber) ==
    IF st.entry = 0 THEN NoEntryDiag(st, lineNumber)
    ELSE [st EXCEPT !.h = extend([st.h EXCEPT !.entries[st.entry].defaults =
                Append(@, [value |-> ln.v, condition |-> createExpression(ln.e)])],
                                 st.entry, lineNumber)]

\* One iteration of the line loop of parseRaw.
ParseLine(st, ln, lineNumber, disk) ==
    CASE ln.k = "config" -> ParseConfig(st, ln, lineNumber)
      [] ln.k = "source" -> ParseSource(st, ln, lineNumber, disk)
      [] ln.k = "choice" -> ParseChoice(st, ln, lineNumber)
      [] ln.k = "endchoice" ->
            ParseEnd(st, lineNumber, "choice", "Unexpected endchoice", TRUE)
      [] ln.k = "if" -> ParseIf(st, ln, lineNumber)
      [] ln.k = "endif" -> ParseEnd(st, lineNumber, "if", "Unexpected endif", FALSE)
      [] ln.k = "menu" -> ParseMenu(st, ln, lineNumber)
      [] ln.k = "endmenu" -> ParseEnd(st, lineNumber, "menu", "Unexpected endmenu", FALSE)
      [] ln.k = "depends" -> ParseDepends(st, ln, lineNumber)
      [] ln.k = "comment" -> ParseComment(st, ln, lineNumber)
      [] ln.k = "type" -> ParseType(st, ln, lineNumber)
      [] ln.k = "select" -> ParseSelect(st, ln, lineNumber)
      [] ln.k = "default" -> ParseDefault(st, ln, lineNumber)
      [] OTHER -> [st EXCEPT !.h = AddDiag(st.h, st.f, lineNumber, "Invalid token")]

RECURSIVE ParseLines(_, _, _, _)
ParseLines(st, lines, i, disk) ==
    IF i > Len(lines) THEN st
    ELSE ParseLines(ParseLine(st, lines[i], i - 1, disk), lines, i + 1, disk)

\* ParsedFile.reset
reset(h, f) == [h EXCEPT !.files[f].diags = <<>>, !.files[f].inclusions = <<>>]

\* ParsedFile.parseRaw(text)
parseRaw(h, f, lines, disk) ==
    LET h0 == reset(h, f)
        scope == h0.files[f].scope
        choice == IF ScopeIs(h0, scope, "choice") THEN h0.scopes[scope].choice ELSE 0
    IN ParseLines(PState(h0, f, scope, 0, choice), lines, 1, disk).h

\* kEnv.readFile
readFile(disk, uri) == IF uri \in DOMAIN disk THEN disk[uri] ELSE <<>>

\* ParsedFile.parse: parseRaw, then every inclusion, in order.
RECURSIVE parse(_, _, _)
RECURSIVE ParseInclusions(_, _, _, _)
parse(h, f, disk) ==
    ParseInclusions(parseRaw(h, f, readFile(disk, h.files[f].uri), disk), f, 1, disk)

ParseInclusions(h, f, i, disk) ==
    IF i > Len(h.files[f].inclusions) THEN h
    ELSE ParseInclusions(parse(h, h.files[f].inclusions[i].file, disk), f, i + 1, disk)

(***************************************************************************)
(* Removal and the incremental path.                                       *)
(***************************************************************************)
\* The file a child of a scope belongs to (c.file).
ChildFile(h, c) ==
    CASE c.t = "scope" -> h.scopes[c.i].file
      [] c.t = "entry" -> h.entries[c.i].file
      [] OTHER -> h.comments[c.i].file

\* delete this.repo.configs[this.name]
DeleteFromTable(h, name) ==
    [h EXCEPT !.table = SelectSeq(@, LAMBDA c : h.configs[c].name # name)]

\* Config.removeEntry
removeEntry(h, e) ==
    LET c == h.entries[e].config
        sc == h.entries[e].scope
        h1 == [h EXCEPT !.configs[c].entries = SpliceIndexOf(@, e)]
        h2 == IF sc # 0
              THEN [h1 EXCEPT !.scopes[sc].children = SpliceIndexOf(@, Ref("entry", e))]
              ELSE h1
    IN IF h2.configs[c].entries = <<>> THEN DeleteFromTable(h2, h2.configs[c].name)
       ELSE h2

RECURSIVE RemoveEntries(_, _, _)
RemoveEntries(h, es, i) ==
    IF i > Len(es) THEN h ELSE RemoveEntries(removeEntry(h, es[i]), es, i + 1)

\* ParsedFile.wipeEntries
wipeEntries(h, f) ==
    RemoveEntries([h EXCEPT !.files[f].entries = <<>>], h.files[f].entries, 1)

\* The filter of ParsedFile.delete: every child of the file goes.
DeleteFilter(h, f, c) == ChildFile(h, c) # f

\* The filter at the head of ParsedFile.onDidChange.
ChangeFilter(h, f, c) == c.t # "scope" \/ ChildFile(h, c) # f

\* ParsedFile.delete
RECURSIVE delete(_, _)
RECURSIVE DeleteInclusions(_, _, _)
delete(h, f) ==
    LET h1 == wipeEntries(h, f)
        sc == h1.files[f].scope
        h2 == IF sc # 0
              THEN [h1 EXCEPT !.scopes[sc].children =
                        SelectSeq(@, LAMBDA c : DeleteFilter(h1, f, c))]
              ELSE h1
    IN DeleteInclusions([h2 EXCEPT !.files[f].inclusions = <<>>],
                        h2.files[f].inclusions, 1)

DeleteInclusions(h, incs, i) ==
    IF i > Len(incs) THEN h ELSE DeleteInclusions(delete(h, incs[i].file), incs, i + 1)

\* Scope.match
ScopeMatch(h, a, b) == h.scopes[a].id = h.scopes[b].id

\* ParsedFile.match (the environments are always empty here)
RECURSIVE match(_, _, _)
match(h, this, other) ==
    /\ h.files[this].uri = h.files[other].uri
    /\ \/ h.files[this].scope = h.files[other].scope
       \/ /\ h.files[this].scope # 0
          /\ h.files[other].scope # 0
          /\ ScopeMatch(h, h.files[other].scope, h.files[this].scope)
    /\ \/ h.files[this].parent = h.files[other].parent
       \/ /\ h.files[this].parent # 0
          /\ h.files[other].parent # 0
          /\ match(h, h.files[other].parent, h.files[this].parent)

\* findIndex over the old inclusions; 0 is -1.  firstDirtyLine = -1 is undefined.
ExistingIndex(h, old, inc, firstDirtyLine) ==
    LET hits == IF firstDirtyLine >= 0 /\ inc.line < firstDirtyLine
                THEN {i \in 1..Len(old) : old[i].line = inc.line}
                ELSE {i \in 1..Len(old) : match(h, old[i].file, inc.file)}
    IN IF hits = {} THEN 0 ELSE CHOOSE i \in hits : \A j \in hits : i <= j

\* The forEach over the new inclusions: reuse a matching old file, else parse.
RECURSIVE MatchInclusions(_, _, _, _, _, _)
MatchInclusions(h, f, i, old, firstDirtyLine, disk) ==
    IF i > Len(h.files[f].inclusions) THEN [h |-> h, old |-> old]
    ELSE LET x == ExistingIndex(h, old, h.files[f].inclusions[i], firstDirtyLine)
         IN IF x # 0
            THEN MatchInclusions([h EXCEPT !.files[f].inclusions[i].file = old[x].file],
                                 f, i + 1, RemoveAt(old, x), firstDirtyLine, disk)
            ELSE MatchInclusions(parse(h, h.files[f].inclusions[i].file, disk),
                                 f, i + 1, old, firstDirtyLine, disk)

\* ParsedFile.onDidChange(change)
onDidChange(h, f, version, firstDirtyLine, disk) ==
    IF version = h.files[f].version THEN h
    ELSE LET oldInclusions == h.files[f].inclusions
             sc == h.files[f].scope
             h1 == [h EXCEPT !.files[f].version = version]
             h2 == IF sc # 0
                   THEN [h1 EXCEPT !.scopes[sc].children =
                            SelectSeq(@, LAMBDA c : ChangeFilter(h1, f, c))]
                   ELSE h1
             h3 == wipeEntries(h2, f)
             h4 == parseRaw(h3, f, readFile(disk, h3.files[f].uri), disk)
             r == MatchInclusions(h4, f, 1, oldInclusions, firstDirtyLine, disk)
         IN DeleteInclusions(r.h, r.old, 1)

(***************************************************************************)
(* Repository                                                              *)
(***************************************************************************)
\* ParsedFile.children
RECURSIVE children(_, _)
RECURSIVE ChildrenFrom(_, _, _)
children(h, f) == ChildrenFrom(h, f, 1)

ChildrenFrom(h, f, i) ==
    IF i > Len(h.files[f].inclusions) THEN <<>>
    ELSE <<h.files[f].inclusions[i].file>>
         \o children(h, h.files[f].inclusions[i].file)
         \o ChildrenFrom(h, f, i + 1)

\* Repository.files
files(h) == IF h.root = 0 THEN <<>> ELSE <<h.root>> \o children(h, h.root)

\* RootScope.reset
RootReset(h) == [h EXCEPT !.scopes[RootScope].children = <<>>]

\* Repository.setRoot
setRoot(h, uri) ==
    [RootReset(h) EXCEPT !.table = <<>>,
                         !.files = Append(@, ParsedFile(uri, RootScope, 0)),
                         !.root = Len(h.files) + 1]

\* Repository.reset
RepositoryReset(h) == [RootReset(h) EXCEPT !.table = <<>>]

\* Repository.parse
RepositoryParse(h, disk) == IF h.root = 0 THEN h ELSE parse(h, h.root, disk)

\* KconfigLangHandler.rescan: repo.reset(), then doScan's repo.parse().
rescan(h, disk) == RepositoryParse(RepositoryReset(h), disk)

RECURSIVE ChangeFiles(_, _, _, _, _, _)
ChangeFiles(h, fs, i, version, firstDirtyLine, disk) ==
    IF i > Len(fs) THEN h
    ELSE ChangeFiles(onDidChange(h, fs[i], version, firstDirtyLine, disk),
                     fs, i + 1, version, firstDirtyLine, disk)

\* Repository.onDidChange(uri, change)
RepositoryOnDidChange(h, uri, version, firstDirtyLine, disk) ==
    ChangeFiles(h, SelectSeq(files(h), LAMBDA f : h.files[f].uri = uri), 1,
                version, firstDirtyLine, disk)

(***************************************************************************)
(* Evaluation.  An EvalContext is its overrides ov (a sequence of          *)
(* [config, value]) and its memo m, `evaluated`.  Every evaluating         *)
(* operator yields the value v, the memo m after the call and x: "" for a  *)
(* normal return, "throw" for an ExpressionError and "stack" when the      *)
(* recursion went deeper than MaxDepth calls of Config.evaluate.           *)
(***************************************************************************)
MaxDepth == 6

R(v, m, x) == [v |-> v, m |-> m, x |-> x]
ConfigKey(name) == [c |-> name, s |-> <<>>]
ScopeKey(id) == [c |-> "", s |-> id]

\* EvalContext.register
register(m, key, value) ==
    [k \in DOMAIN m \cup {key} |-> IF k = key THEN value ELSE m[k]]

EmptyMemo == [k \in {} |-> VB(FALSE)]

\* Config.type, Config.text, Config.mainEntry: the first entry that has one.
FirstEntry(h, c, Has(_)) ==
    LET es == h.configs[c].entries
        hits == {i \in 1..Len(es) : Has(h.entries[es[i]])}
    IN IF hits = {} THEN 0 ELSE es[CHOOSE i \in hits : \A j \in hits : i <= j]

ConfigType(h, c) ==
    IF FirstEntry(h, c, LAMBDA e : e.type # "") = 0 THEN ""
    ELSE h.entries[FirstEntry(h, c, LAMBDA e : e.type # "")].type

mainEntry(h, c) == FirstEntry(h, c, LAMBDA e : e.text # "")

IsBoolType(t) == t \in {"bool", "tristate"}

\* Config.resolveValueString
resolveValueString(h, c, value) ==
    CASE IsBoolType(ConfigType(h, c)) -> VB(value \in {"y", "m"})
      [] ConfigType(h, c) \in {"int", "hex"} -> VN(NumberOf(value))
      [] ConfigType(h, c) = "string" -> VS(value)
      [] OTHER -> VB(FALSE)

\* Config.falseValue (no entry of the model declares a range)
falseValue(h, c) ==
    IF mainEntry(h, c) = 0 THEN VB(FALSE)
    ELSE CASE ConfigType(h, c) \in {"int", "hex"} -> VN(0)
           [] ConfigType(h, c) = "string" -> VS("")
           [] OTHER -> VB(FALSE)

\* Config.hasDependency: the name occurs in the text of a dependency.
hasDependency(h, c, name) ==
    \E i \in 1..Len(h.configs[c].entries) :
        LET deps == h.entries[h.configs[c].entries[i]].dependencies
        IN \E j \in 1..Len(deps) : \E k \in 1..Len(deps[j]) : deps[j][k] = name

\* ctx.overrides.find(o => o.config.name === name), 0 when there is none.
OverrideIndex(h, ov, name) ==
    LET hits == {i \in 1..Len(ov) : h.configs[ov[i].config].name = name}
    IN IF hits = {} THEN 0 ELSE CHOOSE i \in hits : \A j \in hits : i <= j

Compare(op, a, b) ==
    CASE op = "EQUAL" -> a = b
      [] op = "NEQUAL" -> a # b
      [] ~(Comparable(a) /\ Comparable(b)) -> FALSE
      [] op = "GREATER" -> ToNumber(a) > ToNumber(b)
      [] op = "LESS" -> ToNumber(a) < ToNumber(b)
      [] op = "GREATER_EQUAL" -> ToNumber(a) >= ToNumber(b)
      [] OTHER -> ToNumber(a) <= ToNumber(b)

LiteralValue(t) ==
    CASE t.kind = "STRING" -> VS(t.value)
      [] t.kind = "NUMBER" -> VN(NumberOf(t.value))
      [] OTHER -> VB(t.value \in {"y", "m"})

\* A call, by its name f, of one of the evaluating methods below; a holds the
\* arguments after the context.
RECURSIVE Invoke(_, _, _, _, _, _)


\* Expression.solve
Solve(h, ov, m, d, ex) ==
    CASE ex.operator = "VAR" ->
            IF Lookup(h, ex.var.value) = 0 THEN R(VB(FALSE), m, "")
            ELSE Invoke("ConfigEvaluate", h, ov, m, d, Lookup(h, ex.var.value))
      [] ex.operator = "LITERAL" -> R(LiteralValue(ex.var), m, "")
      [] ex.operator = "NOT" ->
            LET a == Invoke("Solve", h, ov, m, d, ex.operands[1])
            IN IF a.x # "" THEN a ELSE R(VB(~Truthy(a.v)), a.m, "")
      [] ex.operator = "AND" ->
            LET a == Invoke("Solve", h, ov, m, d, ex.operands[1])
            IN IF a.x # "" \/ ~Truthy(a.v) THEN a
               ELSE Invoke("Solve", h, ov, a.m, d, ex.operands[2])
      [] ex.operator = "OR" ->
            LET a == Invoke("Solve", h, ov, m, d, ex.operands[1])
            IN IF a.x # "" \/ Truthy(a.v) THEN a
               ELSE Invoke("Solve", h, ov, a.m, d, ex.operands[2])
      [] ex.operator = "PARENTHESIS" -> Invoke("Solve", h, ov, m, d, ex.operands[1])
      [] ex.operator \in {"EQUAL", "NEQUAL", "GREATER", "LESS",
                          "GREATER_EQUAL", "LESS_EQUAL"} ->
            LET a == Invoke("Solve", h, ov, m, d, ex.operands[1])
            IN IF a.x # "" THEN a
               ELSE LET b == Invoke("Solve", h, ov, a.m, d, ex.operands[2])
                    IN IF b.x # "" THEN b
                       ELSE R(VB(Compare(ex.operator, a.v, b.v)), b.m, "")
      [] ex.operator = "UNKNOWN" -> R(VB(FALSE), m, "")
      [] OTHER -> R(VB(FALSE), m, "throw")

\* resolveExpression(raw, ctx): tokenize, parse, solve; nothing is caught.
resolveExpression(h, ov, m, d, raw) ==
    LET tk == tokenizeExpression(raw)
    IN IF ~tk.ok THEN R(VB(FALSE), m, "throw")
       ELSE IF makeExpr(tk.tokens) = ExprError THEN R(VB(FALSE), m, "throw")
       ELSE Invoke("Solve", h, ov, m, d, makeExpr(tk.tokens))

\* dependencies.every(d => resolveExpression(d, ctx))
EveryDependency(h, ov, m, d, deps, i) ==
    IF i > Len(deps) THEN R(VB(TRUE), m, "")
    ELSE LET a == Invoke("resolveExpression", h, ov, m, d, deps[i])
         IN IF a.x # "" THEN a
            ELSE IF ~Truthy(a.v) THEN R(VB(FALSE), a.m, "")
            ELSE Invoke("EveryDependency", h, ov, a.m, d, <<deps, i + 1>>)

\* The resolve(ctx) of the four kinds of scope.
ScopeResolve(h, ov, m, d, s) ==
    CASE h.scopes[s].type = "if" ->
            IF h.scopes[s].expr = NoExpression THEN R(VB(TRUE), m, "")
            ELSE LET a == Invoke("Solve", h, ov, m, d, h.scopes[s].expr)
                 IN IF a.x # "" THEN a ELSE R(VB(Truthy(a.v)), a.m, "")
      [] h.scopes[s].type = "menu" ->
            Invoke("EveryDependency", h, ov, m, d, <<h.scopes[s].dependencies, 1>>)
      [] OTHER -> R(VB(TRUE), m, "")

\* Scope.evaluate
ScopeEvaluate(h, ov, m, d, s) ==
    IF ScopeKey(h.scopes[s].id) \in DOMAIN m
    THEN R(VB(Truthy(m[ScopeKey(h.scopes[s].id)])), m, "")
    ELSE LET a == Invoke("ScopeResolve", h, ov, m, d, s)
         IN IF a.x # "" THEN a
            ELSE IF ~a.v.b \/ h.scopes[s].parent = 0
            THEN R(a.v, register(a.m, ScopeKey(h.scopes[s].id), a.v), "")
            ELSE LET b == Invoke("ScopeEvaluate", h, ov, a.m, d, h.scopes[s].parent)
                 IN IF b.x # "" THEN b
                    ELSE R(b.v, register(b.m, ScopeKey(h.scopes[s].id), b.v), "")

\* ConfigEntry.isActive
isActive(h, ov, m, d, e) ==
    LET a == Invoke("EveryDependency", h, ov, m, d, <<h.entries[e].dependencies, 1>>)
    IN IF a.x # "" \/ ~a.v.b THEN a
       ELSE Invoke("ScopeEvaluate", h, ov, a.m, d, h.entries[e].scope)

\* dependencies.find(d => !resolveExpression(d, ctx)): v says whether one is found.
FindMissing(h, ov, m, d, deps, i) ==
    IF i > Len(deps) THEN R(VB(FALSE), m, "")
    ELSE LET a == Invoke("resolveExpression", h, ov, m, d, deps[i])
         IN IF a.x # "" THEN a
            ELSE IF ~Truthy(a.v) THEN R(VB(TRUE), a.m, "")
            ELSE Invoke("FindMissing", h, ov, a.m, d, <<deps, i + 1>>)

\* Config.missingDependency
missingDependency(h, ov, m, d, c) ==
    IF mainEntry(h, c) = 0 THEN R(VB(FALSE), m, "")
    ELSE Invoke("FindMissing", h, ov, m, d, <<h.entries[mainEntry(h, c)].dependencies, 1>>)

\* entries.some(e => e.type && e.isActive(ctx))
SomeTypedActive(h, ov, m, d, es, i) ==
    IF i > Len(es) THEN R(VB(FALSE), m, "")
    ELSE IF h.entries[es[i]].type = "" THEN Invoke("SomeTypedActive", h, ov, m, d, <<es, i + 1>>)
    ELSE LET a == Invoke("isActive", h, ov, m, d, es[i])
         IN IF a.x # "" \/ a.v.b THEN a
            ELSE Invoke("SomeTypedActive", h, ov, a.m, d, <<es, i + 1>>)

\* Config.activeEntries: v is the sequence of the active entries.
activeEntries(h, ov, m, d, es, i) ==
    IF i > Len(es) THEN R(<<>>, m, "")
    ELSE LET a == Invoke("isActive", h, ov, m, d, es[i])
         IN IF a.x # "" THEN a
            ELSE LET rest == Invoke("activeEntries", h, ov, a.m, d, <<es, i + 1>>)
                 IN IF rest.x # "" THEN rest
                    ELSE R((IF a.v.b THEN <<es[i]>> ELSE <<>>) \o rest.v, rest.m, "")

\* e.defaults.find(d => !d.condition || d.condition.solve(ctx) === true):
\* v is the index of the default found, 0 for none.
FindDefault(h, ov, m, d, dfs, i) ==
    IF i > Len(dfs) THEN R(0, m, "")
    ELSE IF dfs[i].condition = NoExpression THEN R(i, m, "")
    ELSE LET a == Invoke("Solve", h, ov, m, d, dfs[i].condition)
         IN IF a.x # "" THEN a
            ELSE IF a.v = VB(TRUE) THEN R(i, a.m, "")
            ELSE Invoke("FindDefault", h, ov, a.m, d, <<dfs, i + 1>>)

\* The some() of defaultValue over the active entries: v is the raw value of
\* the default found, <<>> for none.
FirstDefault(h, ov, m, d, es, i) ==
    IF i > Len(es) THEN R(<<>>, m, "")
    ELSE LET a == Invoke("FindDefault", h, ov, m, d, <<h.entries[es[i]].defaults, 1>>)
         IN IF a.x # "" THEN a
            ELSE IF a.v # 0 THEN R(<<h.entries[es[i]].defaults[a.v].value>>, a.m, "")
            ELSE Invoke("FirstDefault", h, ov, a.m, d, <<es, i + 1>>)

\* Config.defaultValue: v is <<value>>, or <<>> for undefined.
defaultValue(h, ov, m, d, c) ==
    LET act == Invoke("activeEntries", h, ov, m, d, <<h.configs[c].entries, 1>>)
    IN IF act.x # "" THEN act
       ELSE LET df == Invoke("FirstDefault", h, ov, act.m, d, <<act.v, 1>>)
            IN IF df.x # "" \/ df.v = <<>> THEN df
               ELSE LET val == Invoke("resolveExpression", h, ov, df.m, d, df.v[1])
                    IN IF val.x # "" THEN val ELSE R(<<val.v>>, val.m, "")

\* The selects of one entry that name `name`, hold and resolve to a Config:
\* v is their number.
EntrySelects(h, ov, m, d, sels, name, i) ==
    IF i > Len(sels) THEN R(0, m, "")
    ELSE IF sels[i].name # name
    THEN Invoke("EntrySelects", h, ov, m, d, <<sels, name, i + 1>>)
    ELSE LET a == IF sels[i].condition = NoExpression THEN R(VB(TRUE), m, "")
                  ELSE Invoke("Solve", h, ov, m, d, sels[i].condition)
         IN IF a.x # "" THEN a
            ELSE LET rest == Invoke("EntrySelects", h, ov, a.m, d, <<sels, name, i + 1>>)
                 IN IF rest.x # "" THEN rest
                    ELSE R(rest.v + (IF Truthy(a.v) /\ Lookup(h, name) # 0 THEN 1 ELSE 0),
                           rest.m, "")

CountSelects(h, ov, m, d, es, name, i) ==
    IF i > Len(es) THEN R(0, m, "")
    ELSE LET a == Invoke("EntrySelects", h, ov, m, d, <<h.entries[es[i]].selects, name, 1>>)
         IN IF a.x # "" THEN a
            ELSE LET rest == Invoke("CountSelects", h, ov, a.m, d, <<es, name, i + 1>>)
                 IN IF rest.x # "" THEN rest ELSE R(a.v + rest.v, rest.m, "")

\* Config.selects(ctx, name): v is the length of the list returned.  No entry
\* has implys: the parser puts `imply` lines in entry.selects.
selects(h, ov, m, d, c, name) ==
    LET n == Invoke("CountSelects", h, ov, m, d, <<h.configs[c].entries, name, 1>>)
    IN IF n.x # "" \/ n.v = 0 THEN n
       ELSE LET a == Invoke("ConfigEvaluate", h, ov, n.m, d, c)
            IN IF a.x # "" THEN a
               ELSE R(IF Truthy(a.v) THEN n.v ELSE 0, a.m, "")

\* The find() of Config.selector over repo.configList: v is the selecting
\* Config, 0 for undefined.
FindSelector(h, ov, m, d, c, i) ==
    IF i > Len(h.table) THEN R(0, m, "")
    ELSE IF ~IsBoolType(ConfigType(h, h.table[i]))
            \/ hasDependency(h, h.table[i], h.configs[c].name)
    THEN Invoke("FindSelector", h, ov, m, d, <<c, i + 1>>)
    ELSE LET a == Invoke("selects", h, ov, m, d, <<h.table[i], h.configs[c].name>>)
         IN IF a.x # "" THEN a
            ELSE IF a.v > 0 THEN R(h.table[i], a.m, "")
            ELSE Invoke("FindSelector", h, ov, a.m, d, <<c, i + 1>>)

\* Config.selector
selector(h, ov, m, d, c) ==
    IF ~IsBoolType(ConfigType(h, c)) THEN R(0, m, "")
    ELSE Invoke("FindSelector", h, ov, m, d, <<c, 1>>)

\* this.defaults.find(d => !d.condition || d.condition.solve(ctx)) of chosen()
ChosenDefault(h, ov, m, d, dfs, i) ==
    IF i > Len(dfs) THEN R(0, m, "")
    ELSE IF dfs[i].condition = NoExpression THEN R(i, m, "")
    ELSE LET a == Invoke("Solve", h, ov, m, d, dfs[i].condition)
         IN IF a.x # "" THEN a
            ELSE IF Truthy(a.v) THEN R(i, a.m, "")
            ELSE Invoke("ChosenDefault", h, ov, a.m, d, <<dfs, i + 1>>)

FirstIn(s, Test(_)) ==
    LET hits == {i \in 1..Len(s) : Test(s[i])}
    IN IF hits = {} THEN 0 ELSE s[CHOOSE i \in hits : \A j \in hits : i <= j]

\* ChoiceEntry.chosen: v is the chosen Config, 0 for undefined.
chosen(h, ov, m, d, e) ==
    LET ch == h.entries[e].choices
        byOverride == FirstIn(ch, LAMBDA c : \E i \in 1..Len(ov) :
                          ov[i].config = c /\ Truthy(resolveValueString(h, c, ov[i].value)))
    IN IF byOverride # 0 THEN R(byOverride, m, "")
       ELSE LET df == Invoke("ChosenDefault", h, ov, m, d, <<h.entries[e].defaults, 1>>)
            IN IF df.x # "" THEN df
               ELSE IF df.v # 0
               THEN R(FirstIn(ch, LAMBDA c : <<h.configs[c].name>> =
                                             h.entries[e].defaults[df.v].value),
                      df.m, "")
               ELSE IF ~h.entries[e].optional /\ ch # <<>> THEN R(ch[1], df.m, "")
               ELSE R(0, df.m, "")

\* The tail of Config.evaluate for bool and tristate: select, then choice.  The
\* choice branch returns true without registering it.
SelectOrChoice(h, ov, m, d, c) ==
    LET key == ConfigKey(h.configs[c].name)
        sel == Invoke("selector", h, ov, m, d, c)
        sc == h.entries[h.configs[c].entries[1]].scope
    IN IF sel.x # "" THEN sel
       ELSE IF sel.v # 0 THEN R(VB(TRUE), register(sel.m, key, VB(TRUE)), "")
       ELSE IF ScopeIs(h, sc, "choice")
       THEN LET ch == Invoke("chosen", h, ov, sel.m, d, h.scopes[sc].choice)
            IN IF ch.x # "" THEN ch
               ELSE IF ch.v = c THEN R(VB(TRUE), ch.m, "")
               ELSE R(falseValue(h, c), register(ch.m, key, falseValue(h, c)), "")
       ELSE R(falseValue(h, c), register(sel.m, key, falseValue(h, c)), "")

\* Config.evaluate from the override lookup on, with the select consulted
\* before the override.
SelectBeforeOverride(h, ov, m, d, c) ==
    LET key == ConfigKey(h.configs[c].name)
        o == OverrideIndex(h, ov, h.configs[c].name)
        sel == Invoke("selector", h, ov, m, d, c)
    IN IF sel.x # "" THEN sel
       ELSE IF sel.v # 0 THEN R(VB(TRUE), register(sel.m, key, VB(TRUE)), "")
       ELSE IF o # 0
       THEN R(resolveValueString(h, c, ov[o].value),
              register(sel.m, key, resolveValueString(h, c, ov[o].value)), "")
       ELSE LET df == Invoke("defaultValue", h, ov, sel.m, d, c)
            IN IF df.x # "" THEN df
               ELSE IF df.v # <<>> THEN R(df.v[1], register(df.m, key, df.v[1]), "")
               ELSE IF IsBoolType(ConfigType(h, c)) THEN Invoke("SelectOrChoice", h, ov, df.m, d, c)
               ELSE R(falseValue(h, c), register(df.m, key, falseValue(h, c)), "")

\* Config.evaluate from the override lookup on.
OverrideOrDefault(h, ov, m, d, c) ==
    LET key == ConfigKey(h.configs[c].name)
        o == OverrideIndex(h, ov, h.configs[c].name)
    IN IF o # 0
       THEN R(resolveValueString(h, c, ov[o].value),
              register(m, key, resolveValueString(h, c, ov[o].value)), "")
       ELSE LET df == Invoke("defaultValue", h, ov, m, d, c)
            IN IF df.x # "" THEN df
               ELSE IF df.v # <<>> THEN R(df.v[1], register(df.m, key, df.v[1]), "")
               ELSE IF IsBoolType(ConfigType(h, c)) THEN Invoke("SelectOrChoice", h, ov, df.m, d, c)
               ELSE R(falseValue(h, c), register(df.m, key, falseValue(h, c)), "")

\* Lines 519-526 of Config.evaluate, the dependency gate: v.b says that the
\* gate is closed (a missing dependency, or no typed entry that is active).
DependencyGate(h, ov, m, d, c) ==
    LET md == Invoke("missingDependency", h, ov, m, d, c)
    IN IF md.x # "" \/ md.v.b THEN md
       ELSE LET ta == Invoke("SomeTypedActive", h, ov, md.m, d, <<h.configs[c].entries, 1>>)
            IN IF ta.x # "" THEN ta ELSE R(VB(~ta.v.b), ta.m, "")

\* Config.evaluate with the override consulted before the dependency gate.
OverrideBeforeGate(h, ov, m, d, c) ==
    LET key == ConfigKey(h.configs[c].name)
        o == OverrideIndex(h, ov, h.configs[c].name)
    IN IF key \in DOMAIN m THEN R(m[key], m, "")
       ELSE IF d = 0 THEN R(VB(FALSE), m, "stack")
       ELSE IF o # 0
       THEN R(resolveValueString(h, c, ov[o].value),
              register(m, key, resolveValueString(h, c, ov[o].value)), "")
       ELSE LET g == Invoke("DependencyGate", h, ov, m, d - 1, c)
            IN IF g.x # "" THEN g
               ELSE IF g.v.b THEN R(VB(FALSE), register(g.m, key, VB(FALSE)), "")
               ELSE Invoke("OverrideOrDefault", h, ov, g.m, d - 1, c)

\* Config.evaluate: the memo, the dependency gate, then the rest.
ConfigEvaluate(h, ov, m, d, c) ==
    LET key == ConfigKey(h.configs[c].name)
    IN IF key \in DOMAIN m THEN R(m[key], m, "")
       ELSE IF d = 0 THEN R(VB(FALSE), m, "stack")
       ELSE LET g == Invoke("DependencyGate", h, ov, m, d - 1, c)
            IN IF g.x # "" THEN g
               ELSE IF g.v.b THEN R(VB(FALSE), register(g.m, key, VB(FALSE)), "")
               ELSE Invoke("OverrideOrDefault", h, ov, g.m, d - 1, c)

(***************************************************************************)
(* PropFile.getDependencyOverrides (propfile.ts): the search for overrides *)
(* that satisfy an unmet dependency of an entry of the configuration file. *)
(***************************************************************************)
\* Config.text
ConfigPrompt(h, c) ==
    IF mainEntry(h, c) = 0 THEN "" ELSE h.entries[mainEntry(h, c)].text

\* The names of `variables`: one per VAR token whose symbol is known, has a
\* prompt and is bool or tristate.
Variables(h, tokens) ==
    LET vs == SelectSeq(tokens, LAMBDA t :
                 /\ t.kind = "VAR"
                 /\ Lookup(h, t.value) # 0
                 /\ ConfigPrompt(h, Lookup(h, t.value)) # ""
                 /\ IsBoolType(ConfigType(h, Lookup(h, t.value))))
    IN [i \in 1..Len(vs) |-> vs[i].value]

\* bitmap & (1 << i), for the 1-based position i + 1
BitSet(bitmap, i) == (bitmap \div (2 ^ (i - 1))) % 2 = 1

Replacements(variables, bitmap) ==
    [i \in 1..Len(variables) |->
        [name |-> variables[i], value |-> IF BitSet(bitmap, i) THEN "y" ELSE "n"]]

\* replacements.find(r => r.name === name)
FindReplacement(reps, name) ==
    LET hits == {i \in 1..Len(reps) : reps[i].name = name}
    IN IF hits = {} THEN 0 ELSE CHOOSE i \in hits : \A j \in hits : i <= j

ReplacedTokens(tokens, reps) ==
    [i \in 1..Len(tokens) |->
        IF tokens[i].kind = "VAR" /\ FindReplacement(reps, tokens[i].value) # 0
        THEN [kind |-> "TRISTATE",
              value |-> reps[FindReplacement(reps, tokens[i].value)].value]
        ELSE tokens[i]]

\* if (makeExpr(replacedTokens).solve(ctx)): the turn of the loop for one
\* bitmap, given the expression e that makeExpr returned.
RECURSIVE TryBitmaps(_, _, _, _, _, _)
SolveReplaced(h, ov, m, tokens, variables, bitmap, e) ==
    IF e = ExprError
    THEN [hit |-> -1, evals |-> bitmap, m |-> m, x |-> "throw"]
    ELSE LET r == Invoke("Solve", h, ov, m, MaxDepth, e)
         IN IF r.x # ""
            THEN [hit |-> -1, evals |-> bitmap + 1, m |-> r.m, x |-> r.x]
            ELSE IF Truthy(r.v)
            THEN [hit |-> bitmap, evals |-> bitmap + 1, m |-> r.m, x |-> ""]
            ELSE TryBitmaps(h, ov, r.m, tokens, variables, bitmap + 1)

\* The loop over the bitmaps: hit is the bitmap whose assignment solved to a
\* truthy value (-1 when none did), evals the number of assignments solved.
\* The replaced tokens and their expression are built once per bitmap.
TryBitmaps(h, ov, m, tokens, variables, bitmap) ==
    IF bitmap >= 2 ^ Len(variables)
    THEN [hit |-> -1, evals |-> bitmap, m |-> m, x |-> ""]
    ELSE CHOOSE t \in
            {SolveReplaced(h, ov, m, tokens, variables, bitmap, e) :
                e \in {makeExpr(replacedTokens) :
                         replacedTokens \in
                            {ReplacedTokens(tokens, Replacements(variables, bitmap))}}} :
            TRUE

\* this.conf.find(c => r.name === c.config.name)
FindConf(h, conf, name) ==
    LET hits == {i \in 1..Len(conf) : h.configs[conf[i].config].name = name}
    IN IF hits = {} THEN 0 ELSE CHOOSE i \in hits : \A j \in hits : i <= j

\* Config.missingDependency as the text it returns (<<>> for undefined).
RECURSIVE FindMissingText(_, _, _, _, _)
FindMissingText(h, ov, m, deps, i) ==
    IF i > Len(deps) THEN [raw |-> <<>>, m |-> m, x |-> ""]
    ELSE LET a == Invoke("resolveExpression", h, ov, m, MaxDepth, deps[i])
         IN IF a.x # "" THEN [raw |-> <<>>, m |-> a.m, x |-> a.x]
            ELSE IF ~Truthy(a.v) THEN [raw |-> deps[i], m |-> a.m, x |-> ""]
            ELSE FindMissingText(h, ov, a.m, deps, i + 1)

missingDependencyText(h, ov, m, c) ==
    IF mainEntry(h, c) = 0 THEN [raw |-> <<>>, m |-> m, x |-> ""]
    ELSE FindMissingText(h, ov, m, h.entries[mainEntry(h, c)].dependencies, 1)

\* .filter(e => !entries.some(existing => same name and value))
NotAmong(h, es, entries) ==
    SelectSeq(es, LAMBDA e :
        ~\E i \in 1..Len(entries) :
            /\ h.configs[entries[i].config].name = h.configs[e.config].name
            /\ entries[i].value = e.value)

\* getDependencyOverrides(missingDependency, ctx), with the replacements.forEach
\* of a solved assignment as ProposeEach; d bounds the depth of the recursion
\* up the dependency tree (the call stack).
RECURSIVE getDependencyOverrides(_, _, _, _, _)
RECURSIVE ProposeEach(_, _, _, _, _, _, _)
ProposeEach(h, conf, m, d, reps, i, entries) ==
    IF i > Len(reps) THEN [entries |-> entries, m |-> m, x |-> ""]
    ELSE LET r == reps[i]
             dup == FindConf(h, conf, r.name)
         IN IF dup # 0 /\ conf[dup].value = r.value
            THEN ProposeEach(h, conf, m, d, reps, i + 1, entries)
            ELSE LET entry == IF dup = 0
                              THEN [config |-> Lookup(h, r.name), value |-> r.value,
                                    line |-> -1]
                              ELSE [config |-> conf[dup].config, value |-> r.value,
                                    line |-> conf[dup].line]
                     dep == missingDependencyText(h, conf, m, entry.config)
                 IN IF dep.x # "" THEN [entries |-> entries, m |-> dep.m, x |-> dep.x]
                    ELSE IF dep.raw = <<>>
                    THEN ProposeEach(h, conf, dep.m, d, reps, i + 1,
                                     Append(entries, entry))
                    ELSE LET up == getDependencyOverrides(h, conf, dep.m, d - 1, dep.raw)
                         IN IF up.x # ""
                            THEN [entries |-> entries, m |-> up.m, x |-> up.x]
                            ELSE ProposeEach(h, conf, up.m, d, reps, i + 1,
                                     Append(entries \o NotAmong(h, up.entries, entries),
                                            entry))

\* The body of `if (variables.length > 0 && variables.length < 4)`, given
\* the outcome t of the loop.
ProposeFound(h, conf, d, variables, t) ==
    IF t.x # "" \/ t.hit < 0
    THEN [entries |-> <<>>, evals |-> t.evals, hit |-> -1, m |-> t.m, x |-> t.x]
    ELSE LET p == ProposeEach(h, conf, t.m, d, Replacements(variables, t.hit), 1, <<>>)
         IN [entries |-> p.entries, evals |-> t.evals, hit |-> t.hit,
             m |-> p.m, x |-> p.x]

SearchOverrides(h, conf, m, d, tokens, variables) ==
    IF ~(Len(variables) > 0 /\ Len(variables) < 4)
    THEN [entries |-> <<>>, evals |-> 0, hit |-> -1, m |-> m, x |-> ""]
    ELSE CHOOSE r \in
            {ProposeFound(h, conf, d, variables, t) :
                t \in {TryBitmaps(h, conf, m, tokens, variables, 0)}} : TRUE

getDependencyOverrides(h, conf, m, d, missing) ==
    LET tk == tokenizeExpression(missing)
    IN IF d = 0 \/ ~tk.ok
       THEN [entries |-> <<>>, evals |-> 0, hit |-> -1, m |-> m, x |-> "throw"]
       ELSE CHOOSE r \in
               {SearchOverrides(h, conf, m, d, tokens, variables) :
                   tokens \in {tk.tokens},
                   variables \in {Variables(h, tk.tokens)}} : TRUE

Invoke(f, h, ov, m, d, a) ==
    CASE f = "Solve" -> Solve(h, ov, m, d, a)
      [] f = "resolveExpression" -> resolveExpression(h, ov, m, d, a)
      [] f = "EveryDependency" -> EveryDependency(h, ov, m, d, a[1], a[2])
      [] f = "ScopeResolve" -> ScopeResolve(h, ov, m, d, a)
      [] f = "ScopeEvaluate" -> ScopeEvaluate(h, ov, m, d, a)
      [] f = "isActive" -> isActive(h, ov, m, d, a)
      [] f = "FindMissing" -> FindMissing(h, ov, m, d, a[1], a[2])
      [] f = "missingDependency" -> missingDependency(h, ov, m, d, a)
      [] f = "SomeTypedActive" -> SomeTypedActive(h, ov, m, d, a[1], a[2])
      [] f = "activeEntries" -> activeEntries(h, ov, m, d, a[1], a[2])
      [] f = "FindDefault" -> FindDefault(h, ov, m, d, a[1], a[2])
      [] f = "FirstDefault" -> FirstDefault(h, ov, m, d, a[1], a[2])
      [] f = "defaultValue" -> defaultValue(h, ov, m, d, a)
      [] f = "EntrySelects" -> EntrySelects(h, ov, m, d, a[1], a[2], a[3])
      [] f = "CountSelects" -> CountSelects(h, ov, m, d, a[1], a[2], a[3])
      [] f = "selects" -> selects(h, ov, m, d, a[1], a[2])
      [] f = "FindSelector" -> FindSelector(h, ov, m, d, a[1], a[2])
      [] f = "selector" -> selector(h, ov, m, d, a)
      [] f = "ChosenDefault" -> ChosenDefault(h, ov, m, d, a[1], a[2])
      [] f = "chosen" -> chosen(h, ov, m, d, a)
      [] f = "SelectOrChoice" -> SelectOrChoice(h, ov, m, d, a)
      [] f = "OverrideOrDefault" -> OverrideOrDefault(h, ov, m, d, a)
      [] f = "DependencyGate" -> DependencyGate(h, ov, m, d, a)
      [] f = "ConfigEvaluate" -> ConfigEvaluate(h, ov, m, d, a)
      [] f = "getDependencyOverrides" -> getDependencyOverrides(h, ov, m, d, a)

(***************************************************************************)
(* State.                                                                  *)
(*   kc    the Kconfig heap (Repository and everything it reaches)         *)
(*   disk  the text of every Kconfig file, by path                         *)
(*   ver   the document version of every file                              *)
(*   ops   the number of handlers that have run                            *)
(*   pre   the heap before the last handler, and which handler it was      *)
(*   ctx   the EvalContext in use                                          *)
(*   ret   what the evaluate calls made on ctx have returned, by memo key  *)
(*   last  the last evaluate call made on ctx                              *)
(*   ex    the expression being parsed and solved                          *)
(*   dt    the devicetree parser and its contexts                          *)
(***************************************************************************)
VARIABLES kc, disk, ver, ops, pre, ctx, ret, last, ex, dt, tq, pf, pp, fx, ty, rp

vars == <<kc, disk, ver, ops, pre, ctx, ret, last, ex, dt, tq, pf, pp, fx, ty, rp>>

NoDisk == [u \in {} |-> <<>>]
NoVer == [u \in {} |-> 0]
NoPre == [kind |-> "", uri |-> "", h |-> Repository, same |-> FALSE]
NoCtx == [live |-> FALSE, ov |-> <<>>, m |-> EmptyMemo, n |-> 0]
NoLast == [kind |-> "", key |-> ConfigKey(""), c |-> 0, v |-> VB(FALSE), x |-> "",
           had |-> FALSE, prev |-> VB(FALSE), m0 |-> EmptyMemo]
NoEx == [pc |-> "", raw |-> <<>>, tree |-> NoExpression, result |-> VB(FALSE), x |-> ""]
NoDt == [pc |-> ""]
NoTq == [pc |-> ""]
NoPf == [pc |-> ""]
NoPp == [pc |-> ""]
NoFx == [pc |-> ""]
NoTy == [pc |-> ""]
NoRp == [pc |-> ""]

(***************************************************************************)
(* SpecEval: one Kconfig tree is parsed, then EvalContexts are made over   *)
(* it and Config.evaluate and Scope.evaluate are called on them.           *)
(*                                                                         *)
(* The tree declares D, C, S and X (and Y, when X sits in a choice):       *)
(*     config D / bool "D" / default <dD>                                  *)
(*     config C / bool "C" / default <cD>                                  *)
(*     [if C] [choice] config X / bool "X" [depends on D] [default <dflt>] *)
(*                     [config Y / bool "Y" / endchoice] [endif]           *)
(*     config S / bool "S" / default <sD> [select X]                       *)
(***************************************************************************)
MaxEvals == 2

YN == {"y", "n"}

EvalParams ==
    {p \in [dD : YN, cD : YN, sD : YN, inIf : BOOLEAN, inChoice : BOOLEAN,
            dep : BOOLEAN, sel : BOOLEAN, dflt : {"", "y", "n"}] :
        /\ (~p.dep => p.dD = "y")
        /\ (~p.inIf => p.cD = "y")
        /\ (~p.sel => p.sD = "y")}

Opt(b, lines) == IF b THEN lines ELSE <<>>

EvalText(p) ==
    <<LConfig("D"), LType("bool", "D"), LDefault(<<p.dD>>, <<>>),
      LConfig("C"), LType("bool", "C"), LDefault(<<p.cD>>, <<>>)>>
    \o Opt(p.inIf, <<LIf(<<"C">>)>>)
    \o Opt(p.inChoice, <<LChoice("")>>)
    \o <<LConfig("X"), LType("bool", "X")>>
    \o Opt(p.dep, <<LDepends(<<"D">>)>>)
    \o Opt(p.dflt # "", <<LDefault(<<p.dflt>>, <<>>)>>)
    \o Opt(p.inChoice, <<LConfig("Y"), LType("bool", "Y"), LEndchoice>>)
    \o Opt(p.inIf, <<LEndif>>)
    \o <<LConfig("S"), LType("bool", "S"), LDefault(<<p.sD>>, <<>>)>>
    \o Opt(p.sel, <<LSelect("X", <<>>)>>)

RootUri == "R"

EvalDisk(p) == [u \in {RootUri} |-> EvalText(p)]

\* The overrides a properties file can hold for the tree: none or one for X,
\* none or one for D.
OverrideChoices == [X : {"", "y", "n"}, D : {"", "y"}]

Overrides(h, o) ==
    Opt(o.X # "", <<[config |-> Lookup(h, "X"), value |-> o.X]>>)
    \o Opt(o.D # "", <<[config |-> Lookup(h, "D"), value |-> o.D]>>)

TableSet(h) == {h.table[i] : i \in 1..Len(h.table)}

\* The scopes of the tree, root included.
RECURSIVE ScopesUnder(_, _)
ScopesUnder(h, s) ==
    {s} \cup UNION {ScopesUnder(h, c.i) :
                      c \in {h.scopes[s].children[i] :
                               i \in {j \in 1..Len(h.scopes[s].children) :
                                        h.scopes[s].children[j].t = "scope"}}}

InitEval ==
    /\ kc = Repository
    /\ disk \in {EvalDisk(p) : p \in EvalParams}
    /\ ver = NoVer /\ ops = 0 /\ pre = NoPre
    /\ ctx = NoCtx /\ ret = EmptyMemo /\ last = NoLast
    /\ ex = NoEx /\ dt = NoDt
    /\ tq = NoTq /\ pf = NoPf /\ pp = NoPp /\ fx = NoFx /\ ty = NoTy /\ rp = NoRp

\* KconfigLangHandler.activate: repo.setRoot, then doScan's repo.parse.
EActivate ==
    /\ kc.root = 0
    /\ kc' = RepositoryParse(setRoot(kc, RootUri), disk)
    /\ UNCHANGED <<disk, ver, ops, pre, ctx, ret, last, ex, dt, tq, pf, pp, fx, ty, rp>>

\* new EvalContext(repo, overrides)
ENewContext(o) ==
    /\ kc.root # 0
    /\ ctx' = [live |-> TRUE, ov |-> Overrides(kc, o), m |-> EmptyMemo, n |-> 0]
    /\ ret' = EmptyMemo
    /\ last' = NoLast
    /\ UNCHANGED <<kc, disk, ver, ops, pre, ex, dt, tq, pf, pp, fx, ty, rp>>

Returned(kind, c, key, r) ==
    /\ ctx' = [ctx EXCEPT !.m = r.m, !.n = @ + 1]
    /\ ret' = IF r.x = "" THEN register(ret, key, r.v) ELSE ret
    /\ last' = [kind |-> kind, key |-> key, c |-> c, v |-> r.v, x |-> r.x,
                had |-> key \in DOMAIN ret,
                prev |-> IF key \in DOMAIN ret THEN ret[key] ELSE VB(FALSE),
                m0 |-> ctx.m]
    /\ UNCHANGED <<kc, disk, ver, ops, pre, ex, dt, tq, pf, pp, fx, ty, rp>>

\* config.evaluate(ctx)
EEvaluateConfig(c) ==
    /\ ctx.live /\ ctx.n < MaxEvals
    /\ Returned("config", c, ConfigKey(kc.configs[c].name),
                Invoke("ConfigEvaluate", kc, ctx.ov, ctx.m, MaxDepth, c))

\* scope.evaluate(ctx)
EEvaluateScope(s) ==
    /\ ctx.live /\ ctx.n < MaxEvals
    /\ Returned("scope", s, ScopeKey(kc.scopes[s].id),
                Invoke("ScopeEvaluate", kc, ctx.ov, ctx.m, MaxDepth, s))

NextEval ==
    \/ EActivate
    \/ \E o \in OverrideChoices : ENewContext(o)
    \/ \E c \in TableSet(kc) : EEvaluateConfig(c)
    \/ \E s \in ScopesUnder(kc, RootScope) : EEvaluateScope(s)

SpecEval == InitEval /\ [][NextEval]_vars

(***************************************************************************)
(* Claims on SpecEval.                                                     *)
(***************************************************************************)
\* The last call was config.evaluate, it returned, and the memo held nothing
\* for the symbol when it was made.
FreshConfigCall == last.kind = "config" /\ last.x = "" /\ last.key \notin DOMAIN last.m0

LastOverride == OverrideIndex(kc, ctx.ov, kc.configs[last.c].name)

LastOverrideValue == resolveValueString(kc, last.c, ctx.ov[LastOverride].value)

\* What the rules of Config.evaluate yield for the symbol of the last call when
\* each is asked on its own, in the memo the call started from.
LastGateClosed == DependencyGate(kc, ctx.ov, last.m0, MaxDepth, last.c).v.b
LastDefault == defaultValue(kc, ctx.ov, last.m0, MaxDepth, last.c).v
LastSelector == selector(kc, ctx.ov, last.m0, MaxDepth, last.c).v
LastChosen ==
    LET sc == kc.entries[kc.configs[last.c].entries[1]].scope
    IN /\ ScopeIs(kc, sc, "choice")
       /\ chosen(kc, ctx.ov, last.m0, MaxDepth, kc.scopes[sc].choice).v = last.c

\* C1 as stated: a symbol that has an override in the context evaluates to
\* the override, whatever its dependencies and its scope say.
C1_OverrideBeforeGate ==
    (FreshConfigCall /\ LastOverride # 0) => last.v = LastOverrideValue

\* C1: Config.evaluate decides by the first rule that applies, in the order
\* dependency gate, override, default, select, choice: behind a closed gate
\* (a false dependency or an inactive scope) it returns false even for a
\* symbol with an override, and an override is returned once the gate is open.
C1_GateThenOverride ==
    FreshConfigCall =>
        /\ LastGateClosed => last.v = VB(FALSE)
        /\ (~LastGateClosed /\ LastOverride # 0) => last.v = LastOverrideValue
        /\ (~LastGateClosed /\ LastOverride = 0 /\ LastDefault # <<>>)
               => last.v = LastDefault[1]
        /\ (~LastGateClosed /\ LastOverride = 0 /\ LastDefault = <<>>
               /\ LastSelector # 0) => last.v = VB(TRUE)
        /\ (~LastGateClosed /\ LastOverride = 0 /\ LastDefault = <<>>
               /\ LastSelector = 0 /\ LastChosen) => last.v = VB(TRUE)

\* A symbol with the override y behind a closed gate has been evaluated, to false.
C1_Witness ==
    /\ FreshConfigCall /\ LastOverride # 0 /\ LastOverrideValue = VB(TRUE)
    /\ LastGateClosed /\ last.v = VB(FALSE)

C4_MemoHoldsReturned ==
    /\ \A key \in DOMAIN ret : key \in DOMAIN ctx.m /\ ctx.m[key] = ret[key]
    /\ (last.x = "" /\ last.had) => last.v = last.prev

(***************************************************************************)
(* SpecExpr: one expression over the bool symbols A, B and C is parsed     *)
(* (createExpression) and then solved (Expression.solve) in a context      *)
(* whose overrides set some of the symbols to y; the others are n.         *)
(***************************************************************************)
MaxOperands == 3

ExprSymbols == {"A", "B", "C"}

ExprText ==
    <<LConfig("A"), LType("bool", "A"),
      LConfig("B"), LType("bool", "B"),
      LConfig("C"), LType("bool", "C")>>

ExprRepository ==
    RepositoryParse(setRoot(Repository, RootUri), [u \in {RootUri} |-> ExprText])

\* An operand of the texts: a symbol, or a negated symbol.
Operands == {<<v>> : v \in ExprSymbols} \cup {<<"!", v>> : v \in ExprSymbols}

RECURSIVE ExprTexts(_)
ExprTexts(n) ==
    IF n = 1 THEN Operands
    ELSE ExprTexts(n - 1)
         \cup {t \o <<op>> \o o : t \in ExprTexts(n - 1), op \in {"&&", "||"},
                                  o \in Operands}

RECURSIVE SetToSeq(_)
SetToSeq(S) ==
    IF S = {} THEN <<>>
    ELSE LET x == CHOOSE y \in S : TRUE IN <<x>> \o SetToSeq(S \ {x})

InitExpr ==
    /\ kc = ExprRepository
    /\ disk = NoDisk /\ ver = NoVer /\ ops = 0 /\ pre = NoPre
    /\ \E on \in SUBSET ExprSymbols :
          ctx = [live |-> TRUE,
                 ov |-> [i \in 1..Cardinality(on) |->
                           [config |-> Lookup(ExprRepository, SetToSeq(on)[i]),
                            value |-> "y"]],
                 m |-> EmptyMemo, n |-> 0]
    /\ ret = EmptyMemo /\ last = NoLast
    /\ \E raw \in ExprTexts(MaxOperands) : ex = [NoEx EXCEPT !.pc = "text", !.raw = raw]
    /\ dt = NoDt
    /\ tq = NoTq /\ pf = NoPf /\ pp = NoPp /\ fx = NoFx /\ ty = NoTy /\ rp = NoRp

\* createExpression(raw)
XParse ==
    /\ ex.pc = "text"
    /\ ex' = [ex EXCEPT !.pc = "parsed", !.tree = createExpression(ex.raw)]
    /\ UNCHANGED <<kc, disk, ver, ops, pre, ctx, ret, last, dt, tq, pf, pp, fx, ty, rp>>

\* expr.solve(ctx)
XSolve ==
    /\ ex.pc = "parsed" /\ ex.tree # NoExpression
    /\ LET r == Invoke("Solve", kc, ctx.ov, ctx.m, MaxDepth, ex.tree)
       IN /\ ex' = [ex EXCEPT !.pc = "solved", !.result = r.v, !.x = r.x]
          /\ ctx' = [ctx EXCEPT !.m = r.m]
    /\ UNCHANGED <<kc, disk, ver, ops, pre, ret, last, dt, tq, pf, pp, fx, ty, rp>>

NextExpr == XParse \/ XSolve

SpecExpr == InitExpr /\ [][NextExpr]_vars

\* The value the context gives a symbol of the expression.
IsOn(v) == \E i \in 1..Len(ctx.ov) : kc.configs[ctx.ov[i].config].name = v

\* C3 as stated: `A && B || C` parses with OR at the root and (A and B) as its
\* left operand, and solves to (A and B) or C; `!A && B` parses with AND at
\* the root and (not A) as its left operand, and solves to (not A) and B.
C3_Precedence ==
    ex.pc = "solved" =>
        /\ ex.raw = <<"A", "&&", "B", "||", "C">> =>
              /\ ex.tree.operator = "OR"
              /\ ex.tree.operands[1].operator = "AND"
              /\ ex.x = "" /\ Truthy(ex.result) = ((IsOn("A") /\ IsOn("B")) \/ IsOn("C"))
        /\ ex.raw = <<"!", "A", "&&", "B">> =>
              /\ ex.tree.operator = "AND"
              /\ ex.tree.operands[1].operator = "NOT"
              /\ ex.x = "" /\ Truthy(ex.result) = (~IsOn("A") /\ IsOn("B"))

(***************************************************************************)
(* Spec: the Kconfig tree of a workspace is scanned, rescanned and edited. *)
(* The workspace holds the root file R and the file B that R may source.   *)
(* disk is the text of each document: what the editor hands to             *)
(* onDidChange and what readFile returns (every edit is saved).            *)
(*                                                                         *)
(*   R:  config X / bool "X" / default y / comment "c"                     *)
(*       [menu "M" / [depends on D] / source "B" / endmenu]                *)
(*   B:  config Y / bool "Y" / default y                                   *)
(*    or config X / bool "X" / default n                                   *)
(***************************************************************************)
MaxOps == 4

IncludedUri == "B"

RootHead ==
    <<LConfig("X"), LType("bool", "X"), LDefault(<<"y">>, <<>>), LComment("c")>>

RootTexts ==
    { RootHead,
      RootHead \o <<LMenu("M"), LSource(IncludedUri), LEndmenu>>,
      RootHead \o <<LMenu("M"), LDepends(<<"D">>), LSource(IncludedUri), LEndmenu>> }

IncludedTexts ==
    { <<LConfig("Y"), LType("bool", "Y"), LDefault(<<"y">>, <<>>)>>,
      <<LConfig("X"), LType("bool", "X"), LDefault(<<"n">>, <<>>)>> }

Texts(uri) == IF uri = RootUri THEN RootTexts ELSE IncludedTexts

Uris == {RootUri, IncludedUri}

Min(a, b) == IF a < b THEN a ELSE b

\* The first line (from 0) on which two texts differ; the last line of the
\* text when they are the same.
FirstDiff(old, new) ==
    LET diff == {i \in 1..Min(Len(old), Len(new)) : old[i] # new[i]}
    IN IF diff # {} THEN (CHOOSE i \in diff : \A j \in diff : i <= j) - 1
       ELSE IF Len(old) # Len(new) THEN Min(Len(old), Len(new))
       ELSE Len(new) - 1

Init ==
    /\ kc = Repository
    /\ disk \in [Uris -> RootTexts \cup IncludedTexts]
    /\ \A u \in Uris : disk[u] \in Texts(u)
    /\ ver = [u \in Uris |-> 0]
    /\ ops = 0 /\ pre = NoPre
    /\ ctx = NoCtx /\ ret = EmptyMemo /\ last = NoLast
    /\ ex = NoEx /\ dt = NoDt
    /\ tq = NoTq /\ pf = NoPf /\ pp = NoPp /\ fx = NoFx /\ ty = NoTy /\ rp = NoRp

Handled(kind, uri, same) ==
    /\ ops' = ops + 1
    /\ pre' = [kind |-> kind, uri |-> uri, h |-> kc, same |-> same]
    /\ UNCHANGED <<ctx, ret, last, ex, dt, tq, pf, pp, fx, ty, rp>>

\* KconfigLangHandler.activate: repo.setRoot, then doScan's repo.parse.
Activate ==
    /\ kc.root = 0
    /\ kc' = RepositoryParse(setRoot(kc, RootUri), disk)
    /\ Handled("activate", RootUri, FALSE)
    /\ UNCHANGED <<disk, ver>>

\* KconfigLangHandler.rescan
Rescan ==
    /\ kc.root # 0 /\ ops < MaxOps
    /\ kc' = rescan(kc, disk)
    /\ Handled("rescan", RootUri, TRUE)
    /\ UNCHANGED <<disk, ver>>

\* The onDidChangeTextDocument handler: the document uri now reads text, and
\* its first changed line is firstDirtyLine.
Edit(uri, text, firstDirtyLine) ==
    /\ kc.root # 0 /\ ops < MaxOps
    /\ disk' = [disk EXCEPT ![uri] = text]
    /\ ver' = [ver EXCEPT ![uri] = @ + 1]
    /\ kc' = RepositoryOnDidChange(kc, uri, ver'[uri], firstDirtyLine, disk')
    /\ Handled("edit", uri, text = disk[uri])

Next ==
    \/ Activate
    \/ Rescan
    \/ \E uri \in Uris : \E text \in Texts(uri) :
          \E firstDirtyLine \in {0, FirstDiff(disk[uri], text)} :
             Edit(uri, text, firstDirtyLine)

Spec == Init /\ [][Next]_vars

(***************************************************************************)
(* Claims on Spec.                                                         *)
(***************************************************************************)
Symbols == {"X", "Y", "D"}

Range(seq) == {seq[i] : i \in 1..Len(seq)}

\* A full parse of the documents into a new Repository.
FullParse == RepositoryParse(setRoot(Repository, RootUri), disk)

\* The entries of a symbol, each as its file and its lines.
EntriesOf(h, name) ==
    IF Lookup(h, name) = 0 THEN <<>>
    ELSE [i \in 1..Len(h.configs[Lookup(h, name)].entries) |->
            LET e == h.entries[h.configs[Lookup(h, name)].entries[i]]
            IN [uri |-> h.files[e.file].uri, lines |-> e.lines]]

\* The value of a symbol in a new context without overrides.
ValueOf(h, name) ==
    IF Lookup(h, name) = 0 THEN <<"undefined">>
    ELSE LET r == Invoke("ConfigEvaluate", h, <<>>, EmptyMemo, MaxDepth, Lookup(h, name))
         IN <<r.x, r.v>>

HasEntryIn(h, name, uri) == \E e \in Range(EntriesOf(h, name)) : e.uri = uri

\* C5 as stated: after an edit handled by the incremental path, every symbol
\* that has no entry in the edited file has the entries and the value that a
\* full parse of the same documents gives it.
C5_IncrementalEqualsFull ==
    pre.kind = "edit" =>
        \A name \in Symbols :
            (~HasEntryIn(kc, name, pre.uri) /\ ~HasEntryIn(FullParse, name, pre.uri))
            => /\ Range(EntriesOf(kc, name)) = Range(EntriesOf(FullParse, name))
               /\ ValueOf(kc, name) = ValueOf(FullParse, name)

\* C6 as stated: a rescan, or a change event that leaves the text of its
\* document as it was, leaves every symbol with the number of entries, the
\* line ranges and the value it had.
C6_ReparseChangesNothing ==
    (pre.kind = "rescan" \/ (pre.kind = "edit" /\ pre.same)) =>
        \A name \in Symbols :
            /\ Len(EntriesOf(kc, name)) = Len(EntriesOf(pre.h, name))
            /\ Range(EntriesOf(kc, name)) = Range(EntriesOf(pre.h, name))
            /\ ValueOf(kc, name) = ValueOf(pre.h, name)

\* The ParsedFiles the last edit was handed to, and those it left in place.
ChangedFiles == {f \in Range(files(pre.h)) : pre.h.files[f].uri = pre.uri}
KeptFiles == (Range(files(pre.h)) \cap Range(files(kc))) \ ChangedFiles

\* The child was there before the last handler ran.
IsOld(c) ==
    CASE c.t = "scope" -> c.i <= Len(pre.h.scopes)
      [] c.t = "entry" -> c.i <= Len(pre.h.entries)
      [] OTHER -> c.i <= Len(pre.h.comments)

\* C7 as stated: an incremental reparse removes from the scopes exactly the
\* children the changed file had put there: none of them is left behind, and
\* the children of the files left in place stay, in their order.
C7_ExactRemoval ==
    (pre.kind = "edit" /\ ChangedFiles # {}) =>
        /\ \A s \in ScopesUnder(kc, RootScope) : \A c \in Range(kc.scopes[s].children) :
              ~(IsOld(c) /\ ChildFile(kc, c) \in ChangedFiles)
        /\ \A s \in ScopesUnder(pre.h, RootScope) :
              SelectSeq(pre.h.scopes[s].children,
                        LAMBDA c : ChildFile(pre.h, c) \in KeptFiles)
              = SelectSeq(kc.scopes[s].children,
                          LAMBDA c : IsOld(c) /\ ChildFile(kc, c) \in KeptFiles)

\* C8 as stated: every Config of the symbol table has an entry, and an edit
\* takes a Config out of the table only by removing its last entry.
C8_TableHoldsLiveConfigs ==
    /\ \A c \in TableSet(kc) : kc.configs[c].entries # <<>>
    /\ pre.kind = "edit" =>
          \A c \in TableSet(pre.h) \ TableSet(kc) : kc.configs[c].entries = <<>>

\* The ConfigEntries that are children of a scope reachable from the root.
ReachableEntries(h) ==
    {c.i : c \in {c \in UNION {Range(h.scopes[s].children) : s \in ScopesUnder(h, RootScope)} :
                      c.t = "entry"}}

\* The ConfigEntries in the entry lists of the ParsedFiles of the repository.
FileEntries(h) == UNION {Range(h.files[f].entries) : f \in Range(files(h))}

\* The entry is one of the entries of the Config the table holds for its name.
BelongsToTable(h, e) ==
    LET c == Lookup(h, h.configs[h.entries[e].config].name)
    IN c # 0 /\ c = h.entries[e].config /\ e \in Range(h.configs[c].entries)

\* C25: the symbol table and the scope tree agree: every entry of a Config of
\* the table is a child of a scope under the root, and every ConfigEntry under
\* the root or in the entry list of a ParsedFile of the repository is an entry
\* of the Config the table holds for its name.
C25_TableAndTreeAgree ==
    /\ \A c \in TableSet(kc) : Range(kc.configs[c].entries) \subseteq ReachableEntries(kc)
    /\ \A e \in ReachableEntries(kc) \cup FileEntries(kc) : BelongsToTable(kc, e)

(***************************************************************************)
(* Devicetree.  The DTSFile, NodeEntry and Node objects live in the        *)
(* sequences dt.files, dt.entries and dt.nodes and are known by their      *)
(* index; dt.ctx is the one DTSCtx of the parser, which is its current     *)
(* context.  A document is kept as the node blocks it opens, in the order  *)
(* in which it opens them, each with the properties it assigns.            *)
(***************************************************************************)
Block(path, properties) == [path |-> path, properties |-> properties, ref |-> FALSE]
\* `&{path} { ... }`: a block that opens a node by reference.
RefBlock(path, properties) == [path |-> path, properties |-> properties, ref |-> TRUE]
Property(name, value) == [name |-> name, value |-> value]

\* new DTSCtx()
DTSCtx == [boardFile |-> 0, overlays |-> <<>>, nodes |-> <<>>, dirty |-> <<>>]

\* DTSCtx.fileCount
fileCount(c) == Len(c.overlays) + (IF c.boardFile # 0 THEN 1 ELSE 0)

\* new DTSFile(uri, ctx)
DTSFile(uri, c) ==
    [uri |-> uri, priority |-> fileCount(c), dirty |-> TRUE, entries |-> <<>>]

\* DTSFile.has (no document includes another)
has(d, f, uri) == d.files[f].uri = uri

\* ctx.nodes[path]: the Node, 0 for undefined
NodeAt(d, path) ==
    LET hits == {i \in 1..Len(d.ctx.nodes) : d.nodes[d.ctx.nodes[i]].path = path}
    IN IF hits = {} THEN 0 ELSE d.ctx.nodes[CHOOSE i \in hits : TRUE]

\* new Node(refMatch[1]).path for a reference `&{path}`: the text of the
\* reference itself.
RefName(path) == "&{" \o path \o "}"

\* One `name {` or `&{path} {` of Parser.parse: the Node of the context or a
\* new one, and a new NodeEntry with the next number of the file.  A new Node
\* of a named block is put into ctx.nodes; the new Node of a reference that
\* ctx.node does not resolve is not.
OpenNode(d, f, block, number) ==
    LET known == NodeAt(d, block.path)
        n == IF known # 0 THEN known ELSE Len(d.nodes) + 1
        d1 == IF known # 0 THEN d
              ELSE IF block.ref
              THEN [d EXCEPT !.nodes = Append(@, [path |-> RefName(block.path),
                                                  entries |-> <<>>])]
              ELSE [d EXCEPT !.nodes = Append(@, [path |-> block.path, entries |-> <<>>]),
                             !.ctx.nodes = Append(@, n)]
        e == Len(d.entries) + 1
    IN [d1 EXCEPT !.entries = Append(@, [node |-> n, file |-> f, number |-> number,
                                         properties |-> block.properties]),
                  !.nodes[n].entries = Append(@, e),
                  !.files[f].entries = Append(@, e)]

RECURSIVE OpenNodes(_, _, _, _)
OpenNodes(d, f, blocks, i) ==
    IF i > Len(blocks) THEN d
    ELSE OpenNodes(OpenNode(d, f, blocks[i], i - 1), f, blocks, i + 1)

\* Parser.parse(ctx, doc): the new DTSFile is the last of d.files.
DtsParse(d, uri) ==
    OpenNodes([d EXCEPT !.files = Append(@, DTSFile(uri, d.ctx))],
              Len(d.files) + 1, d.docs[uri], 1)

\* DTSFile.remove
RECURSIVE RemoveFromNodes(_, _, _)
RemoveFromNodes(d, es, i) ==
    IF i > Len(es) THEN d
    ELSE RemoveFromNodes([d EXCEPT !.nodes[d.entries[es[i]].node].entries =
                                      SelectSeq(@, LAMBDA e : e # es[i])],
                         es, i + 1)

remove(d, f) ==
    [RemoveFromNodes(d, d.files[f].entries, 1)
        EXCEPT !.files[f].entries = <<>>, !.files[f].dirty = TRUE]

RECURSIVE RemoveAll(_, _, _)
RemoveAll(d, fs, i) ==
    IF i > Len(fs) THEN d ELSE RemoveAll(remove(d, fs[i]), fs, i + 1)

IsDirtyUri(d, f) == \E i \in 1..Len(d.ctx.dirty) : has(d, f, d.ctx.dirty[i])

\* DTSCtx.reset: the context after it; what it returns is the boardFile and
\* the overlays of the context before it.
DTSCtxReset(d) ==
    LET d1 == IF d.ctx.boardFile # 0 /\ IsDirtyUri(d, d.ctx.boardFile)
              THEN remove(d, d.ctx.boardFile) ELSE d
        d2 == RemoveAll(d1, SelectSeq(d.ctx.overlays, LAMBDA f : IsDirtyUri(d, f)), 1)
    IN [d2 EXCEPT !.ctx = DTSCtx]

\* DTSCtx.insertOverlay
insertOverlay(d, uri) ==
    [d EXCEPT !.files = Append(@, DTSFile(uri, d.ctx)),
              !.ctx.overlays = <<Len(d.files) + 1>> \o @,
              !.ctx.dirty = Append(@, uri)]

\* DTSCtx.adoptNodes
RECURSIVE AdoptEntries(_, _, _)
AdoptEntries(d, es, i) ==
    IF i > Len(es) THEN d
    ELSE AdoptEntries(IF NodeAt(d, d.nodes[d.entries[es[i]].node].path) = 0
                      THEN [d EXCEPT !.ctx.nodes = Append(@, d.entries[es[i]].node)]
                      ELSE d,
                      es, i + 1)

adoptNodes(d, f) == AdoptEntries(d, d.files[f].entries, 1)

\* The loop of Parser.reparse over removed.overlays
RECURSIVE ReparseOverlays(_, _, _)
ReparseOverlays(d, removed, i) ==
    IF i > Len(removed) THEN d
    ELSE IF d.files[removed[i]].dirty
    THEN ReparseOverlays([DtsParse(d, d.files[removed[i]].uri)
                             EXCEPT !.ctx.overlays = Append(@, Len(d.files) + 1)],
                         removed, i + 1)
    ELSE ReparseOverlays([adoptNodes(d, removed[i])
                             EXCEPT !.ctx.overlays = Append(@, removed[i])],
                         removed, i + 1)

\* Parser.reparse(ctx)
reparse(d) ==
    LET board == d.ctx.boardFile
        d1 == DTSCtxReset(d)
        d2 == IF board # 0 /\ d1.files[board].dirty
              THEN [DtsParse(d1, d1.files[board].uri)
                       EXCEPT !.ctx.boardFile = Len(d1.files) + 1]
              ELSE [adoptNodes(d1, board) EXCEPT !.ctx.boardFile = board]
    IN ReparseOverlays(d2, d.ctx.overlays, 1)

\* Parser.addContext(board, overlays): the documents of the overlays are
\* opened together and parsed in the order `order` in which they come; none
\* is in ctx.overlays before all are parsed.
RECURSIVE ParseEach(_, _, _)
ParseEach(d, uris, i) ==
    IF i > Len(uris) THEN d ELSE ParseEach(DtsParse(d, uris[i]), uris, i + 1)

FileOf(d, uri) ==
    CHOOSE f \in 1..Len(d.files) :
        d.files[f].uri = uri /\ \A g \in 1..Len(d.files) : d.files[g].uri = uri => g <= f

addContext(d, board, overlays, order) ==
    LET d1 == [DtsParse([d EXCEPT !.ctx = DTSCtx], board)
                  EXCEPT !.ctx.boardFile = Len(d.files) + 1]
        d2 == ParseEach(d1, order, 1)
    IN [d2 EXCEPT !.ctx.overlays = [i \in 1..Len(overlays) |-> FileOf(d2, overlays[i])]]

\* The key the comparator of Node.sortedEntries orders by.
SortKey(d, e) == 1000000 * d.files[d.entries[e].file].priority + d.entries[e].number

\* entries.sort(...): a stable sort by SortKey.
RECURSIVE StableSort(_, _)
StableSort(d, es) ==
    IF es = <<>> THEN <<>>
    ELSE LET least == CHOOSE i \in 1..Len(es) :
                          /\ \A j \in 1..Len(es) : SortKey(d, es[i]) <= SortKey(d, es[j])
                          /\ \A j \in 1..(i - 1) : SortKey(d, es[j]) # SortKey(d, es[i])
         IN <<es[least]>> \o StableSort(d, RemoveAt(es, least))

\* Node.sortedEntries
sortedEntries(d, n) == StableSort(d, d.nodes[n].entries)

\* The properties of the entries, one after the other.
RECURSIVE FlatProperties(_, _, _)
FlatProperties(d, es, i) ==
    IF i > Len(es) THEN <<>>
    ELSE d.entries[es[i]].properties \o FlatProperties(d, es, i + 1)

\* props[p.name] = p over a list: the last property of each name.
LastByName(ps) ==
    {ps[i] : i \in {j \in 1..Len(ps) : \A k \in (j + 1)..Len(ps) : ps[k].name # ps[j].name}}

\* Node.uniqueProperties
uniqueProperties(d, n) == LastByName(FlatProperties(d, sortedEntries(d, n), 1))

\* DTSCtx.has
ctxHas(d, uri) ==
    \/ d.ctx.boardFile # 0 /\ has(d, d.ctx.boardFile, uri)
    \/ \E i \in 1..Len(d.ctx.overlays) : has(d, d.ctx.overlays[i], uri)

(***************************************************************************)
(* SpecDts: a context is made of the board file and up to two overlays,    *)
(* then overlays are inserted into it and its documents are changed.       *)
(* Every overlay assigns its own name to the property p of /a, or leaves   *)
(* it alone; the board assigns "board".                                    *)
(***************************************************************************)
MaxDtsOps == 2

BoardUri == "board"
OverlayUris == {"o1", "o2", "o3"}

BoardText == <<Block("/", <<>>), Block("/a", <<Property("p", BoardUri)>>)>>

OverlayTexts(uri) ==
    { <<RefBlock("/a", <<Property("p", uri)>>)>>,
      <<Block("/", <<>>), Block("/a", <<Property("p", uri)>>)>>,
      <<Block("/", <<>>)>>,
      <<RefBlock("/b", <<>>), RefBlock("/b", <<>>)>> }

\* The overlays a context is made with, and the orders in which their
\* documents can come.
OverlayLists == {<<>>, <<"o1">>, <<"o1", "o2">>, <<"o2", "o1">>}
Orders(overlays) == {o \in OverlayLists : Range(o) = Range(overlays)}

InitDts ==
    /\ kc = Repository /\ disk = NoDisk /\ ver = NoVer /\ ops = 0
    /\ pre = [kind |-> "", uri |-> "", h |-> NoDt, same |-> FALSE, added |-> <<>>]
    /\ ctx = NoCtx /\ ret = EmptyMemo /\ last = NoLast /\ ex = NoEx
    /\ tq = NoTq /\ pf = NoPf /\ pp = NoPp /\ fx = NoFx /\ ty = NoTy /\ rp = NoRp
    /\ \E docs \in [OverlayUris \cup {BoardUri} ->
                      {BoardText} \cup UNION {OverlayTexts(u) : u \in OverlayUris}] :
          /\ docs[BoardUri] = BoardText
          /\ \A u \in OverlayUris : docs[u] \in OverlayTexts(u)
          /\ dt = [pc |-> "idle", docs |-> docs, files |-> <<>>, entries |-> <<>>,
                   nodes |-> <<>>, ctx |-> DTSCtx]

DtsHandled(kind, uri, added) ==
    /\ ops' = ops + 1
    /\ pre' = [kind |-> kind, uri |-> uri, h |-> dt, same |-> FALSE, added |-> added]
    /\ UNCHANGED <<kc, disk, ver, ctx, ret, last, ex, tq, pf, pp, fx, ty, rp>>

\* Parser.addContext(board, overlays)
DAddContext(overlays, order) ==
    /\ dt.pc = "idle"
    /\ dt' = [addContext(dt, BoardUri, overlays, order) EXCEPT !.pc = "ready"]
    /\ DtsHandled("add", BoardUri, <<BoardUri>> \o overlays)

\* Parser.insertOverlays(uri)
DInsertOverlays(uri) ==
    /\ dt.pc = "ready" /\ ops <= MaxDtsOps
    /\ ~ctxHas(dt, uri)
    /\ dt' = reparse(insertOverlay(dt, uri))
    /\ DtsHandled("insert", uri, Append(pre.added, uri))

\* Parser.onDidChange: the document uri now reads text; nothing else happens
\* while the user is typing.
DChange(uri, text, typing) ==
    /\ dt.pc = "ready" /\ ops <= MaxDtsOps
    /\ dt' = LET d1 == [dt EXCEPT !.docs[uri] = text]
                 d2 == IF ctxHas(d1, uri)
                       THEN [d1 EXCEPT !.ctx.dirty = Append(@, uri)] ELSE d1
             IN IF typing THEN d1 ELSE reparse(d2)
    /\ DtsHandled(IF typing THEN "typing" ELSE "change", uri, pre.added)

NextDts ==
    \/ \E overlays \in OverlayLists : \E order \in Orders(overlays) :
          DAddContext(overlays, order)
    \/ \E uri \in OverlayUris : DInsertOverlays(uri)
    \/ \E uri \in OverlayUris \cup {BoardUri} :
          \E text \in IF uri = BoardUri THEN {BoardText} ELSE OverlayTexts(uri) :
             \E typing \in BOOLEAN : DChange(uri, text, typing)

SpecDts == InitDts /\ [][NextDts]_vars

\* The DTSFiles of a context, board first.
CtxFiles(d) ==
    (IF d.ctx.boardFile # 0 THEN <<d.ctx.boardFile>> ELSE <<>>) \o d.ctx.overlays

\* The Uris that were dirty when the last handler called reparse.
DirtyAtReparse ==
    {pre.h.ctx.dirty[i] : i \in 1..Len(pre.h.ctx.dirty)} \cup {pre.uri}

\* C9 as stated: a reparse parses only the files of the context that have a
\* dirty Uri; every other file of the context is the DTSFile it was, with the
\* NodeEntries it had, and its nodes are nodes of the context again.
C9_OnlyDirtyReparsed ==
    pre.kind \in {"insert", "change"} =>
        \A f \in Range(CtxFiles(pre.h)) :
            pre.h.files[f].uri \notin DirtyAtReparse =>
                /\ f \in Range(CtxFiles(dt))
                /\ dt.files[f].entries = pre.h.files[f].entries
                /\ \A e \in Range(dt.files[f].entries) :
                      /\ dt.entries[e].node \in Range(dt.ctx.nodes)
                      /\ e \in Range(dt.nodes[dt.entries[e].node].entries)

\* The file of the context that holds a document.
CtxFileOf(d, uri) ==
    CHOOSE f \in Range(CtxFiles(d)) : d.files[f].uri = uri

\* The properties the entries of a node hold, file after file in the order in
\* which the files were added to the context, entry after entry in each file.
RECURSIVE PropertiesInOrderAdded(_, _, _)
PropertiesInOrderAdded(d, n, uris) ==
    IF uris = <<>> THEN <<>>
    ELSE FlatProperties(d, SelectSeq(d.files[CtxFileOf(d, Head(uris))].entries,
                                     LAMBDA e : d.entries[e].node = n), 1)
         \o PropertiesInOrderAdded(d, n, Tail(uris))

\* C10 as stated: the unique properties of a node are its entries' properties
\* merged in the order board file, then overlays in the order in which they
\* were added, so that the overlay added last wins; after the first parse,
\* after an overlay is inserted and after a reparse.
C10_LatestOverlayWins ==
    (dt.pc = "ready" /\ \A u \in Range(pre.added) : ctxHas(dt, u)) =>
        \A n \in Range(dt.ctx.nodes) :
            uniqueProperties(dt, n) = LastByName(PropertiesInOrderAdded(dt, n, pre.added))

\* The Nodes that can be reached from a context: those of its node table and
\* those of the NodeEntries of its files.
CtxNodes(d) ==
    Range(d.ctx.nodes) \cup
    {d.entries[e].node : e \in UNION {Range(d.files[f].entries) : f \in Range(CtxFiles(d))}}

\* C11 as stated: within the context the path determines the Node; no two
\* Node objects that can be reached from the files of the context or from its
\* node table have the same path.
C11_PathDeterminesNode ==
    \A n1, n2 \in CtxNodes(dt) : dt.nodes[n1].path = dt.nodes[n2].path => n1 = n2

(***************************************************************************)
(* TaskQueue.  The tasks are known by their number in the order in which   *)
(* they are appended.  The function of a task returns a value, returns a   *)
(* promise that resolves or rejects, or throws before it returns.          *)
(* q.state[t] is "queued" until TypedTask.execute is called, "running"     *)
(* from then until the promise of the task settles, and then "resolved" or *)
(* "rejected"; it is "thrown" when the function threw, and the promise of  *)
(* that task is never settled.  q.reactions holds the promise reactions    *)
(* that poke has registered and that have not run yet.                     *)
(***************************************************************************)
TaskKinds == {"value", "resolve", "reject", "throw"}

\* new TaskQueue()
TaskQueue ==
    [pc |-> "queue", tasks |-> <<>>, idle |-> <<>>, executing |-> 0,
     kind |-> <<>>, state |-> <<>>, reactions |-> <<>>,
     started |-> [task |-> 0, idle |-> FALSE, tasks |-> 0, idles |-> 0, running |-> {}]]

\* The tasks that have been started and whose promise has not settled.
Unsettled(q) == {t \in 1..Len(q.state) : q.state[t] = "running"}

IdleLaneFirst(q) ==
    IF q.idle # <<>> THEN [t |-> Head(q.idle), tasks |-> q.tasks, idle |-> Tail(q.idle)]
    ELSE IF q.tasks # <<>> THEN [t |-> Head(q.tasks), tasks |-> Tail(q.tasks), idle |-> q.idle]
    ELSE [t |-> 0, tasks |-> q.tasks, idle |-> q.idle]

\* this.tasks.shift() || this.idle.shift(): the task, 0 for undefined, and the
\* two lanes after it.
shiftTask(q) ==
    IF q.tasks # <<>> THEN [t |-> Head(q.tasks), tasks |-> Tail(q.tasks), idle |-> q.idle]
    ELSE IF q.idle # <<>> THEN [t |-> Head(q.idle), tasks |-> q.tasks, idle |-> Tail(q.idle)]
    ELSE [t |-> 0, tasks |-> q.tasks, idle |-> q.idle]

\* TypedTask.execute as poke calls it, after the reactions on the promise of
\* the task are registered: a function that returns a value resolves the
\* promise at once, which queues the first reaction; a function that throws
\* leaves the promise pending and this.executing set.
execute(q, t, old) ==
    LET q1 == [q EXCEPT !.executing = t,
                        !.started = [task |-> t, idle |-> t \in Range(old.idle),
                                     tasks |-> Len(old.tasks), idles |-> Len(old.idle),
                                     running |-> Unsettled(old)]]
    IN IF q.kind[t] = "value"
       THEN [q1 EXCEPT !.state[t] = "resolved",
                       !.reactions = Append(@, [task |-> t, stage |-> "then"])]
       ELSE IF q.kind[t] = "throw"
       THEN [q1 EXCEPT !.state[t] = "thrown"]
       ELSE [q1 EXCEPT !.state[t] = "running"]

pokeWhileExecuting(q) ==
    LET s == shiftTask(q)
    IN IF s.t = 0 THEN q
       ELSE execute([q EXCEPT !.tasks = s.tasks, !.idle = s.idle], s.t, q)

\* TaskQueue.poke
poke(q) ==
    IF q.executing # 0 THEN q
    ELSE LET s == shiftTask(q)
         IN IF s.t = 0 THEN q
            ELSE execute([q EXCEPT !.tasks = s.tasks, !.idle = s.idle], s.t, q)

\* TaskQueue.append(task, idle)
append(q, kind, idle) ==
    LET t == Len(q.kind) + 1
        q1 == [q EXCEPT !.kind = Append(@, kind), !.state = Append(@, "queued")]
    IN poke(IF idle THEN [q1 EXCEPT !.idle = Append(@, t)]
            ELSE [q1 EXCEPT !.tasks = Append(@, t)])

\* TaskQueue.finished
finished(q) == poke([q EXCEPT !.executing = 0])

\* The promise that the function of a running task returned settles, and the
\* reactions of TypedTask.execute settle the promise of the task.
settle(q, t) ==
    [q EXCEPT !.state[t] = IF q.kind[t] = "reject" THEN "rejected" ELSE "resolved",
              !.reactions = Append(@, [task |-> t, stage |-> "then"])]

\* The first of the reactions .then(finished).catch(finished) runs: on a
\* resolved promise then calls finished; a rejected promise passes then by
\* and catch calls finished.  When finished, called by then, starts a task
\* whose function throws, the promise that then returned is rejected and
\* catch calls finished once more; an exception out of the finished that
\* catch called is handled by nobody.
react(q) ==
    LET r == Head(q.reactions)
        q1 == [q EXCEPT !.reactions = Tail(@)]
        q2 == finished(q1)
        threw == q2.executing # 0 /\ q2.state[q2.executing] = "thrown"
    IN IF r.stage = "then" /\ q.state[r.task] = "rejected"
       THEN [q1 EXCEPT !.reactions = Append(@, [task |-> r.task, stage |-> "catch"])]
       ELSE IF r.stage = "then" /\ threw
       THEN [q2 EXCEPT !.reactions = Append(@, [task |-> r.task, stage |-> "catch"])]
       ELSE q2

(***************************************************************************)
(* SpecQueue: callers append up to MaxTasks tasks of every kind to either  *)
(* lane of one queue while the running task settles and the reactions run. *)
(***************************************************************************)
MaxTasks == 4

InitQueue ==
    /\ kc = Repository /\ disk = NoDisk /\ ver = NoVer /\ ops = 0 /\ pre = NoPre
    /\ ctx = NoCtx /\ ret = EmptyMemo /\ last = NoLast /\ ex = NoEx /\ dt = NoDt
    /\ tq = TaskQueue /\ pf = NoPf /\ pp = NoPp /\ fx = NoFx /\ ty = NoTy /\ rp = NoRp

QAppend(kind, idle) ==
    /\ Len(tq.kind) < MaxTasks
    /\ tq' = append(tq, kind, idle)
    /\ UNCHANGED <<kc, disk, ver, ops, pre, ctx, ret, last, ex, dt, pf, pp, fx, ty, rp>>

QSettle(t) ==
    /\ tq.state[t] = "running"
    /\ tq' = settle(tq, t)
    /\ UNCHANGED <<kc, disk, ver, ops, pre, ctx, ret, last, ex, dt, pf, pp, fx, ty, rp>>

QReact ==
    /\ tq.reactions # <<>>
    /\ tq' = react(tq)
    /\ UNCHANGED <<kc, disk, ver, ops, pre, ctx, ret, last, ex, dt, pf, pp, fx, ty, rp>>

NextQueue ==
    \/ \E kind \in TaskKinds : \E idle \in BOOLEAN : QAppend(kind, idle)
    \/ \E t \in 1..Len(tq.state) : QSettle(t)
    \/ QReact

SpecQueue == InitQueue /\ [][NextQueue]_vars

C13_NormalLaneFirst ==
    /\ tq.started.idle => tq.started.tasks = 0
    /\ (tq.started.tasks > 0 /\ tq.started.idles > 0) => ~tq.started.idle

\* The task started last was taken while both lanes held tasks, and the idle
\* task appended before it still waits.
C13_Witness ==
    /\ tq.started.task # 0
    /\ tq.started.tasks > 0 /\ tq.started.idles > 0
    /\ \E i \in 1..Len(tq.idle) : tq.idle[i] < tq.started.task

\* The promises settle and the reactions run: a promise that the function of
\* a task returned settles, and a queued promise reaction is run.
FairQueue ==
    /\ SpecQueue
    /\ WF_vars(QReact)
    /\ \A t \in 1..MaxTasks : WF_vars(t <= Len(tq.state) /\ QSettle(t))

\* C24: the queue never wedges; every task that was appended is started in
\* the end, whether the tasks before it return, reject or throw.
C24_NeverWedges ==
    \A t \in 1..MaxTasks :
        (t <= Len(tq.state)) ~> (t <= Len(tq.state) /\ tq.state[t] # "queued")

\* The queue is wedged: a task waits, the task in this.executing threw, and no
\* promise is left to settle and no reaction to run.
Wedged(q) ==
    /\ q.tasks \o q.idle # <<>>
    /\ q.executing # 0 /\ q.state[q.executing] = "thrown"
    /\ q.reactions = <<>>

(***************************************************************************)
(* PropFile and the timers of KconfigLangHandler.  One override document   *)
(* is open; its text is kept as its generation g (one more with every      *)
(* edit) and the number n of override lines it holds.  The PropFile        *)
(* objects live in h.files and are known by their index; h.propFile is     *)
(* propFiles[uri], 0 when the table has no PropFile of the document.       *)
(* h.timers holds every timer that setTimeout has made, h.passes every     *)
(* call of PropFile.lint, h.diags the DiagnosticCollection entry of the    *)
(* document.  Time is counted in milliseconds.                             *)
(***************************************************************************)
LintDelay == 100
RescanDelay == 1000

\* new PropFile(uri, repo, baseConf, diags)
PropFile ==
    [version |-> 0, conf |-> [g |-> 0, n |-> 0], parsed |-> 0, timeout |-> 0,
     lintDiags |-> <<>>]

NoDiags == [set |-> FALSE, parse |-> 0, lint |-> <<>>]

\* new KconfigLangHandler() with the document open
LangHandler ==
    [pc |-> "lint", now |-> 0, doc |-> [g |-> 1, n |-> 0], files |-> <<>>,
     propFile |-> 0, timers |-> <<>>, rescanTimer |-> 0, passes |-> <<>>,
     scanning |-> 0, diags |-> NoDiags, edited |-> "", at |-> 0]

\* setTimeout(callback, delay): the new timer is the last of h.timers.
setTimeout(h, owner, delay) ==
    [h EXCEPT !.timers = Append(@, [owner |-> owner, due |-> h.now + delay,
                                    state |-> "pending"])]

\* clearTimeout(t): nothing happens to a timer that has fired.
clearTimeout(h, t) ==
    IF t # 0 /\ h.timers[t].state = "pending"
    THEN [h EXCEPT !.timers[t].state = "cleared"] ELSE h

\* KconfigLangHandler.propFile(uri)
propFile(h) ==
    IF h.propFile # 0 THEN h
    ELSE [h EXCEPT !.files = Append(@, PropFile), !.propFile = Len(h.files) + 1]

\* PropFile.updateDiags
updateDiags(h, f) ==
    [h EXCEPT !.diags = [set |-> TRUE, parse |-> h.files[f].parsed,
                         lint |-> h.files[f].lintDiags]]

\* The calls of lint of a PropFile that have not returned.
InFlight(h, f) ==
    {p \in 1..Len(h.passes) : h.passes[p].file = f /\ h.passes[p].pc \in {"tick", "loop"}}

\* PropFile.parse(text): every call of lint that is suspended notes whether
\* the parse came before or after it took the version.
PropFileParse(h, f, text) ==
    updateDiags([h EXCEPT !.files[f].version = @ + 1,
                          !.files[f].conf = text,
                          !.files[f].parsed = text.g,
                          !.passes = [p \in 1..Len(h.passes) |->
                              IF p \notin InFlight(h, f) THEN h.passes[p]
                              ELSE IF h.passes[p].pc = "tick"
                              THEN [h.passes[p] EXCEPT !.early = TRUE]
                              ELSE [h.passes[p] EXCEPT !.late = TRUE]]],
                f)

\* PropFile.scheduleLint
scheduleLint(h, f) ==
    LET h1 == setTimeout(clearTimeout(h, h.files[f].timeout), f, LintDelay)
    IN [h1 EXCEPT !.files[f].timeout = Len(h1.timers)]

\* PropFile.reparse(d)
PropFileReparse(h, f) == scheduleLint(PropFileParse(h, f, h.doc), f)

\* PropFile.onChange(e)
onChange(h, f) == scheduleLint(PropFileParse(h, f, h.doc), f)

\* PropFile.lint up to its first await: the call is the last of h.passes.
lint(h, f) ==
    [clearTimeout(h, h.files[f].timeout)
        EXCEPT !.passes = Append(@, [file |-> f, pc |-> "tick", i |-> 0, version |-> -1,
                                     diags |-> <<>>, early |-> FALSE, late |-> FALSE,
                                     fresh |-> TRUE])]

\* The end of PropFile.lint: lintDiags and actions are assigned and the
\* diagnostics of the document are set.
publish(h, p) ==
    LET f == h.passes[p].file
    IN updateDiags([h EXCEPT !.files[f].lintDiags = h.passes[p].diags,
                             !.passes[p].pc = "done",
                             !.passes[p].fresh =
                                 \A k \in 1..Len(h.passes[p].diags) :
                                     h.passes[p].diags[k].g = h.files[f].conf.g],
                   f)

NeverAbandon(h, p) == FALSE

\* version !== this.version
abandon(h, p) ==
    h.passes[p].version # h.files[h.passes[p].file].version

\* The head of the loop of lint: the next await, or the end after the loop.
lintLoop(h, p) ==
    IF h.passes[p].i < h.files[h.passes[p].file].conf.n
    THEN [h EXCEPT !.passes[p].pc = "loop"]
    ELSE publish(h, p)

\* PropFile.lint goes on after an await of skipTick.
lintResume(h, p) ==
    LET f == h.passes[p].file
    IN IF h.passes[p].pc = "tick"
       THEN lintLoop([h EXCEPT !.passes[p].version = h.files[f].version], p)
       ELSE IF abandon(h, p) THEN [h EXCEPT !.passes[p].pc = "abandoned"]
       ELSE lintLoop([h EXCEPT !.passes[p].diags =
                                   Append(@, [g |-> h.files[f].conf.g, i |-> h.passes[p].i]),
                               !.passes[p].i = @ + 1], p)

\* KconfigLangHandler.delayedRescan
delayedRescan(h) ==
    LET h1 == setTimeout(clearTimeout(h, h.rescanTimer), 0, RescanDelay)
    IN [h1 EXCEPT !.rescanTimer = Len(h1.timers)]

\* KconfigLangHandler.rescan up to its await of doScan
LangHandlerRescan(h) ==
    [h EXCEPT !.propFile = 0, !.diags = NoDiags, !.scanning = @ + 1]

\* KconfigLangHandler.refreshOpenPropfiles at the end of doScan
refreshOpenPropfiles(h, visible) ==
    LET h1 == [h EXCEPT !.scanning = @ - 1]
    IN IF visible THEN PropFileReparse(propFile(h1), propFile(h1).propFile) ELSE h1

\* The timers that are set and have neither fired nor been cleared.
Pending(h) == {t \in 1..Len(h.timers) : h.timers[t].state = "pending"}

(***************************************************************************)
(* SpecLint: the override document is edited, saved and opened, Kconfig    *)
(* files change on disk, time passes, timers fire and the calls of lint go *)
(* on tick by tick.  Time passes only while no call of lint waits for its  *)
(* setImmediate, and never beyond a timer that is due: it passes up to the *)
(* moment a timer is due, or up to TickMs before it.                       *)
(***************************************************************************)
MaxLintOps == 4
MaxTime == 1300
TickMs == LintDelay \div 2
Lines == {0, 2}

InitLint ==
    /\ kc = Repository /\ disk = NoDisk /\ ver = NoVer /\ ops = 0 /\ pre = NoPre
    /\ ctx = NoCtx /\ ret = EmptyMemo /\ last = NoLast /\ ex = NoEx /\ dt = NoDt
    /\ tq = NoTq /\ pf = LangHandler /\ pp = NoPp /\ fx = NoFx /\ ty = NoTy /\ rp = NoRp

LintHandled(h, kind) ==
    /\ pf' = [h EXCEPT !.edited = kind, !.at = h.now]
    /\ UNCHANGED <<kc, disk, ver, pre, ctx, ret, last, ex, dt, tq, pp, fx, ty, rp>>

\* onDidChangeTextDocument of the override document
LChange(n) ==
    /\ ops < MaxLintOps /\ ops' = ops + 1
    /\ LET h == propFile([pf EXCEPT !.doc = [g |-> pf.doc.g + 1, n |-> n]])
       IN LintHandled(onChange(h, h.propFile), "change")

\* onDidSaveTextDocument
LSave ==
    /\ ops < MaxLintOps /\ ops' = ops + 1
    /\ LET h == propFile(pf) IN LintHandled(lint(h, h.propFile), "save")

\* onDidOpenTextDocument, onDidChangeActiveTextEditor
LOpen ==
    /\ ops < MaxLintOps /\ ops' = ops + 1
    /\ LET h == propFile(pf) IN LintHandled(PropFileReparse(h, h.propFile), "open")

\* The file system watcher sees a Kconfig file change.
LWatch ==
    /\ ops < MaxLintOps /\ ops' = ops + 1
    /\ LintHandled(delayedRescan(pf), "watch")

\* A timer fires: the callback of scheduleLint or that of delayedRescan.
LTimer(t) ==
    /\ t \in Pending(pf) /\ pf.timers[t].due = pf.now
    /\ LET h == [pf EXCEPT !.timers[t].state = "fired"]
       IN LintHandled(IF pf.timers[t].owner = 0 THEN LangHandlerRescan(h)
                      ELSE lint(h, pf.timers[t].owner), "timer")
    /\ UNCHANGED ops

\* doScan ends.
LScanned(visible) ==
    /\ pf.scanning > 0
    /\ LintHandled(refreshOpenPropfiles(pf, visible), "scanned")
    /\ UNCHANGED ops

\* setImmediate of skipTick: a call of lint goes on.
LResume(p) ==
    /\ pf.passes[p].pc \in {"tick", "loop"}
    /\ LintHandled(lintResume(pf, p), "resume")
    /\ UNCHANGED ops

\* d milliseconds pass.
LElapse(d) ==
    /\ d > 0 /\ pf.now + d <= MaxTime
    /\ \A p \in 1..Len(pf.passes) : pf.passes[p].pc \notin {"tick", "loop"}
    /\ \A t \in Pending(pf) : pf.now + d <= pf.timers[t].due
    /\ pf' = [pf EXCEPT !.now = @ + d]
    /\ UNCHANGED <<kc, disk, ver, ops, pre, ctx, ret, last, ex, dt, tq, pp, fx, ty, rp>>

NextLint ==
    \/ \E n \in Lines : LChange(n)
    \/ LSave
    \/ LOpen
    \/ LWatch
    \/ \E t \in 1..Len(pf.timers) : LTimer(t)
    \/ \E visible \in BOOLEAN : LScanned(visible)
    \/ \E p \in 1..Len(pf.passes) : LResume(p)
    \/ \E d \in {pf.timers[t].due - pf.now : t \in Pending(pf)}
                \cup {pf.timers[t].due - pf.now - TickMs : t \in Pending(pf)} : LElapse(d)

SpecLint == InitLint /\ [][NextLint]_vars

\* C14 as stated: a call of lint during which its PropFile was parsed again
\* never assigns lintDiags and never sets the diagnostics.
C14_ParsedOverNeverPublishes ==
    \A p \in 1..Len(pf.passes) :
        (pf.passes[p].early \/ pf.passes[p].late) => pf.passes[p].pc # "done"

\* C14 amended: a call of lint takes the version after its first tick.  A
\* parse after that makes it return at its next step without assigning
\* lintDiags or setting diagnostics; a parse during the first tick does not,
\* and the call goes on with the new version and the new configuration.  What
\* a call publishes is computed from the configuration of the last parse.
C14_PublishesCurrentVersion ==
    \A p \in 1..Len(pf.passes) :
        /\ pf.passes[p].pc = "done" => ~pf.passes[p].late /\ pf.passes[p].fresh
        /\ pf.passes[p].pc = "abandoned" =>
              /\ pf.passes[p].late
              /\ pf.passes[p].version # pf.files[pf.passes[p].file].version

\* One call of lint was parsed over in its loop and has returned without
\* publishing, and one was parsed over during its first tick and has
\* published diagnostics of the new text.
C14_Witness ==
    /\ \E p \in 1..Len(pf.passes) :
          pf.passes[p].pc = "abandoned" /\ pf.passes[p].i > 0
    /\ \E p \in 1..Len(pf.passes) :
          pf.passes[p].pc = "done" /\ pf.passes[p].early /\ pf.passes[p].diags # <<>>

\* The pending timers of lint passes of the document, and those of rescans.
LintTimers == {t \in Pending(pf) : pf.timers[t].owner # 0}
RescanTimers == {t \in Pending(pf) : pf.timers[t].owner = 0}

\* C15 as stated: at most one timer is pending for the lint of the document
\* and at most one for the rescan; after an edit exactly one lint is
\* scheduled, one delay after the edit, and after a change on disk exactly
\* one rescan, one delay after the change.
C15_Debounced ==
    /\ Cardinality(LintTimers) <= 1
    /\ Cardinality(RescanTimers) <= 1
    /\ pf.edited = "change" =>
          \E t \in LintTimers : LintTimers = {t} /\ pf.timers[t].due = pf.at + LintDelay
    /\ pf.edited = "watch" =>
          \E t \in RescanTimers : RescanTimers = {t} /\ pf.timers[t].due = pf.at + RescanDelay

(***************************************************************************)
(* SpecMalformed: the calls of SpecEval on trees in which one line holds   *)
(* an expression that does not tokenize (`?`) or does not parse (`D &&`).  *)
(* The line is an `if`, the `depends on` of a menu, or the `depends on`,   *)
(* the default value, the condition of the default or the condition of a   *)
(* select of X; Y is declared after X and Z takes its default from X.      *)
(***************************************************************************)
Places == {"if", "menu", "depends", "default", "defaultIf", "selectIf"}
Malformed == {<<"?">>, <<"D", "&&">>}

MalformedText(place, bad) ==
    <<LConfig("D"), LType("bool", "D"), LDefault(<<"y">>, <<>>)>>
    \o Opt(place = "if", <<LIf(bad)>>)
    \o Opt(place = "menu", <<LMenu("M"), LDepends(bad)>>)
    \o <<LConfig("X"), LType("bool", "X")>>
    \o Opt(place = "depends", <<LDepends(bad)>>)
    \o (IF place = "default" THEN <<LDefault(bad, <<>>)>>
        ELSE IF place = "defaultIf" THEN <<LDefault(<<"y">>, bad)>>
        ELSE <<LDefault(<<"y">>, <<>>)>>)
    \o Opt(place = "if", <<LEndif>>)
    \o Opt(place = "menu", <<LEndmenu>>)
    \o <<LConfig("S"), LType("bool", "S"), LDefault(<<"y">>, <<>>)>>
    \o Opt(place = "selectIf", <<LSelect("X", bad)>>)
    \o <<LConfig("Y"), LType("bool", "Y"), LDefault(<<"y">>, <<>>),
         LConfig("Z"), LType("bool", "Z"), LDefault(<<"X">>, <<>>)>>

InitMalformed ==
    /\ kc = Repository
    /\ disk \in {[u \in {RootUri} |-> MalformedText(place, bad)] :
                    place \in Places, bad \in Malformed}
    /\ ver = NoVer /\ ops = 0 /\ pre = NoPre
    /\ ctx = NoCtx /\ ret = EmptyMemo /\ last = NoLast
    /\ ex = NoEx /\ dt = NoDt
    /\ tq = NoTq /\ pf = NoPf /\ pp = NoPp /\ fx = NoFx /\ ty = NoTy /\ rp = NoRp

SpecMalformed == InitMalformed /\ [][NextEval]_vars

\* C16 as stated: no call of Config.evaluate or Scope.evaluate raises, and
\* the symbol declared after the malformed line evaluates to its default.
C16_NeverRaises ==
    last.kind # "" =>
        /\ last.x = ""
        /\ (last.kind = "config" /\ last.c = Lookup(kc, "Y")) => last.v = VB(TRUE)

(***************************************************************************)
(* SpecCycle: the calls of SpecEval on trees in which X and D depend on    *)
(* each other, X depends on itself, X and D select each other, or X        *)
(* depends on D alone.                                                     *)
(***************************************************************************)
Cycles == {"depends", "self", "select", "none"}

CycleText(cycle, dflt) ==
    <<LConfig("X"), LType("bool", "X")>>
    \o Opt(cycle \in {"depends", "none"}, <<LDepends(<<"D">>)>>)
    \o Opt(cycle = "self", <<LDepends(<<"X">>)>>)
    \o Opt(cycle = "select", <<LSelect("D", <<>>)>>)
    \o Opt(dflt # "", <<LDefault(<<dflt>>, <<>>)>>)
    \o <<LConfig("D"), LType("bool", "D")>>
    \o Opt(cycle = "depends", <<LDepends(<<"X">>)>>)
    \o Opt(cycle = "select", <<LSelect("X", <<>>)>>)
    \o Opt(dflt # "", <<LDefault(<<dflt>>, <<>>)>>)

InitCycle ==
    /\ kc = Repository
    /\ disk \in {[u \in {RootUri} |-> CycleText(cycle, dflt)] :
                    cycle \in Cycles, dflt \in {"", "y", "n"}}
    /\ ver = NoVer /\ ops = 0 /\ pre = NoPre
    /\ ctx = NoCtx /\ ret = EmptyMemo /\ last = NoLast
    /\ ex = NoEx /\ dt = NoDt
    /\ tq = NoTq /\ pf = NoPf /\ pp = NoPp /\ fx = NoFx /\ ty = NoTy /\ rp = NoRp

SpecCycle == InitCycle /\ [][NextEval]_vars

\* C28: every call of Config.evaluate returns; the recursion does not go on
\* until the stack is used up.
C28_EvaluateTerminates ==
    last.kind = "config" => last.x # "stack"

(***************************************************************************)
(* SpecMemo: the calls of SpecEval on a tree of two files, each with a     *)
(* menu under the root scope; the menu of the root file may depend on D    *)
(* and the menu of the included file has the same prompt or another one.   *)
(*   R:  config D / bool "D" / default <dD>                                *)
(*       menu "M" / [depends on D] / config X / bool "X" / default y       *)
(*       endmenu / source "B"                                              *)
(*   B:  menu <prompt> / config Y / bool "Y" / default y / endmenu         *)
(***************************************************************************)
MemoParams == [dD : YN, dep : BOOLEAN, prompt : {"M", "N"}]

MemoDisk(p) ==
    [u \in {RootUri, "B"} |->
        IF u = RootUri
        THEN <<LConfig("D"), LType("bool", "D"), LDefault(<<p.dD>>, <<>>), LMenu("M")>>
             \o Opt(p.dep, <<LDepends(<<"D">>)>>)
             \o <<LConfig("X"), LType("bool", "X"), LDefault(<<"y">>, <<>>),
                  LEndmenu, LSource("B")>>
        ELSE <<LMenu(p.prompt), LConfig("Y"), LType("bool", "Y"),
               LDefault(<<"y">>, <<>>), LEndmenu>>]

InitMemo ==
    /\ kc = Repository
    /\ disk \in {MemoDisk(p) : p \in MemoParams}
    /\ ver = NoVer /\ ops = 0 /\ pre = NoPre
    /\ ctx = NoCtx /\ ret = EmptyMemo /\ last = NoLast
    /\ ex = NoEx /\ dt = NoDt
    /\ tq = NoTq /\ pf = NoPf /\ pp = NoPp /\ fx = NoFx /\ ty = NoTy /\ rp = NoRp

SpecMemo == InitMemo /\ [][NextEval]_vars

\* The value of the last call in a context with the same overrides in which
\* nothing has been evaluated.
FreshValue ==
    IF last.kind = "config"
    THEN Invoke("ConfigEvaluate", kc, ctx.ov, EmptyMemo, MaxDepth, last.c).v
    ELSE Invoke("ScopeEvaluate", kc, ctx.ov, EmptyMemo, MaxDepth, last.c).v

\* C30: the memo does not change a result; Config.evaluate and Scope.evaluate
\* return in every context the value they return when nothing has been
\* evaluated in it.
C30_MemoChangesNothing ==
    (last.kind # "" /\ last.x = "") => last.v = FreshValue

(***************************************************************************)
(* SpecUnterminated: the calls of SpecEval on trees in which an `if`, a    *)
(* `menu` or a `choice` that holds X is closed by its end keyword, by the  *)
(* end keyword of another scope, or by nothing before the file ends; Y is  *)
(* declared on the lines after it.                                         *)
(***************************************************************************)
Openers == {"if", "menu", "choice"}
Closers == {"end", "other", "none"}

OpenLine(type) ==
    CASE type = "if" -> LIf(<<"D">>) [] type = "menu" -> LMenu("M") [] OTHER -> LChoice("")

EndLine(type) ==
    CASE type = "if" -> LEndif [] type = "menu" -> LEndmenu [] OTHER -> LEndchoice

UnterminatedText(open, close, other) ==
    <<LConfig("D"), LType("bool", "D"), LDefault(<<"y">>, <<>>), OpenLine(open),
      LConfig("X"), LType("bool", "X"), LDefault(<<"y">>, <<>>)>>
    \o (CASE close = "end" -> <<EndLine(open)>>
          [] close = "other" -> <<EndLine(other)>>
          [] OTHER -> <<>>)
    \o <<LConfig("Y"), LType("bool", "Y"), LDefault(<<"y">>, <<>>)>>

InitUnterminated ==
    /\ kc = Repository
    /\ disk \in {[u \in {RootUri} |-> UnterminatedText(open, close, other)] :
                    open \in Openers, close \in Closers, other \in Openers}
    /\ ver = NoVer /\ ops = 0 /\ pre = NoPre
    /\ ctx = NoCtx /\ ret = EmptyMemo /\ last = NoLast
    /\ ex = NoEx /\ dt = NoDt
    /\ tq = NoTq /\ pf = NoPf /\ pp = NoPp /\ fx = NoFx /\ ty = NoTy /\ rp = NoRp

SpecUnterminated == InitUnterminated /\ [][NextEval]_vars

\* The scope the text opens, and whether its own end keyword follows.
Opened == CHOOSE t \in Openers : \E i \in 1..Len(disk[RootUri]) : disk[RootUri][i] = OpenLine(t)
Closed == \E i \in 1..Len(disk[RootUri]) : disk[RootUri][i] = EndLine(Opened)

\* The line of the text that opens the scope, counted from 0.
OpenedAt == CHOOSE i \in 0..Len(disk[RootUri]) : disk[RootUri][i + 1] = OpenLine(Opened)

\* C17 as stated: once the file is parsed, a scope that its end keyword does
\* not close is reported by an `Unterminated` diagnostic of the file on the
\* line that opens it, and the entries that the lines after it declare exist.
C17_UnterminatedReported ==
    (kc.root # 0 /\ ~Closed) =>
        /\ \E i \in 1..Len(kc.files[kc.root].diags) :
              /\ kc.files[kc.root].diags[i].line = OpenedAt
              /\ kc.files[kc.root].diags[i].msg \in
                    {"Unterminated " \o t : t \in Openers \cup {"root"}}
        /\ Lookup(kc, "Y") # 0
        /\ kc.configs[Lookup(kc, "Y")].entries # <<>>

(***************************************************************************)
(* SpecTyped: the calls of SpecEval on trees in which X is of each of the  *)
(* value types, has a prompt and a default, and lies behind a dependency   *)
(* on D, an `if D` or a menu that depends on D.                            *)
(***************************************************************************)
ValueTypes == {"bool", "tristate", "int", "hex", "string"}
Gates == {"depends", "if", "menu", "none"}

TypedDefault(type) ==
    CASE type \in {"int", "hex"} -> <<"1">>
      [] type = "string" -> <<"\"\"">>
      [] OTHER -> <<"y">>

TypedText(type, gate, dD) ==
    <<LConfig("D"), LType("bool", "D"), LDefault(<<dD>>, <<>>)>>
    \o Opt(gate = "if", <<LIf(<<"D">>)>>)
    \o Opt(gate = "menu", <<LMenu("M"), LDepends(<<"D">>)>>)
    \o <<LConfig("X"), LType(type, "X")>>
    \o Opt(gate = "depends", <<LDepends(<<"D">>)>>)
    \o <<LDefault(TypedDefault(type), <<>>)>>
    \o Opt(gate = "if", <<LEndif>>)
    \o Opt(gate = "menu", <<LEndmenu>>)

InitTyped ==
    /\ kc = Repository
    /\ disk \in {[u \in {RootUri} |-> TypedText(type, gate, dD)] :
                    type \in ValueTypes, gate \in Gates, dD \in YN}
    /\ ver = NoVer /\ ops = 0 /\ pre = NoPre
    /\ ctx = NoCtx /\ ret = EmptyMemo /\ last = NoLast
    /\ ex = NoEx /\ dt = NoDt
    /\ tq = NoTq /\ pf = NoPf /\ pp = NoPp /\ fx = NoFx /\ ty = NoTy /\ rp = NoRp

SpecTyped == InitTyped /\ [][NextEval]_vars

\* C18 as stated: behind a false dependency or a false enclosing scope
\* Config.evaluate returns the false value of the type of the symbol.
C18_FalseValueOfType ==
    (FreshConfigCall /\ LastGateClosed) => last.v = falseValue(kc, last.c)

(***************************************************************************)
(* The search applied to the dependency expressions of a small tree.       *)
(***************************************************************************)
FixSymbols == {"A", "B", "C", "D"}

FixText ==
    <<LConfig("A"), LType("bool", "A"), LDepends(<<"D">>),
      LConfig("B"), LType("bool", "B"),
      LConfig("C"), LType("bool", "C"),
      LConfig("D"), LType("bool", "D")>>

FixRepository ==
    RepositoryParse(setRoot(Repository, RootUri), [u \in {RootUri} |-> FixText])

MaxFixOperands == 4

FixOperands == {<<v>> : v \in FixSymbols} \cup {<<"!", v>> : v \in {"A", "B"}}

RECURSIVE FixTexts(_)
FixTexts(n) ==
    IF n = 1 THEN FixOperands
    ELSE FixTexts(n - 1)
         \cup {t \o <<op>> \o o : t \in FixTexts(n - 1), op \in {"&&", "||"},
                                  o \in FixOperands}

\* The conjunctions of n symbols.
RECURSIVE FixConjunctions(_)
FixConjunctions(n) ==
    IF n = 1 THEN {<<v>> : v \in FixSymbols}
    ELSE {t \o <<"&&", v>> : t \in FixConjunctions(n - 1), v \in FixSymbols}

\* this.conf: the entries of the configuration file.
FixConfs ==
    {<<>>,
     <<[config |-> Lookup(FixRepository, "A"), value |-> "n", line |-> 0]>>,
     <<[config |-> Lookup(FixRepository, "B"), value |-> "y", line |-> 0]>>}

InitFix ==
    /\ kc = FixRepository
    /\ disk = NoDisk /\ ver = NoVer /\ ops = 0 /\ pre = NoPre
    /\ \E conf \in FixConfs :
          ctx = [live |-> TRUE, ov |-> conf, m |-> EmptyMemo, n |-> 0]
    /\ ret = EmptyMemo /\ last = NoLast /\ ex = NoEx /\ dt = NoDt
    /\ tq = NoTq /\ pf = NoPf /\ pp = NoPp /\ ty = NoTy /\ rp = NoRp
    /\ \E raw \in FixTexts(MaxFixOperands - 1) \cup FixConjunctions(MaxFixOperands) :
          fx = [pc |-> "text", raw |-> raw, entries |-> <<>>, evals |-> 0,
                hit |-> -1, x |-> ""]

\* lint: the dependency is kept when it does not resolve to a truthy value.
FMissing ==
    /\ fx.pc = "text"
    /\ LET r == Invoke("resolveExpression", kc, ctx.ov, ctx.m, MaxDepth, fx.raw)
       IN /\ fx' = [fx EXCEPT !.pc = IF r.x # "" THEN "thrown"
                                     ELSE IF Truthy(r.v) THEN "met" ELSE "missing",
                              !.x = r.x]
          /\ ctx' = [ctx EXCEPT !.m = r.m]
    /\ UNCHANGED <<kc, disk, ver, ops, pre, ret, last, ex, dt, tq, pf, pp, ty, rp>>

\* overrides.push(...this.getDependencyOverrides(missingDependency, ctx))
FOverrides ==
    /\ fx.pc = "missing"
    /\ LET r == Invoke("getDependencyOverrides", kc, ctx.ov, ctx.m, MaxDepth, fx.raw)
       IN /\ fx' = [fx EXCEPT !.pc = "fixed", !.entries = r.entries,
                              !.evals = r.evals, !.hit = r.hit, !.x = r.x]
          /\ ctx' = [ctx EXCEPT !.m = r.m]
    /\ UNCHANGED <<kc, disk, ver, ops, pre, ret, last, ex, dt, tq, pf, pp, ty, rp>>

NextFix == FMissing \/ FOverrides

SpecFix == InitFix /\ [][NextFix]_vars

\* The boolean symbols the expression references.
Referenced == {v \in FixSymbols : \E i \in 1..Len(fx.raw) : fx.raw[i] = v}

\* C19 as stated: for an unmet dependency that references 4 or more boolean
\* symbols the search proposes nothing, and for one that references n
\* symbols, 1 <= n <= 3, it solves at most 2^n truth assignments.
C19_SearchCapped ==
    fx.pc = "fixed" =>
        /\ Cardinality(Referenced) >= 4 => fx.entries = <<>>
        /\ Cardinality(Referenced) \in 1..3 => fx.evals <= 2 ^ Cardinality(Referenced)

(***************************************************************************)
(* preprocess (preprocessor.ts).  A file is the sequence of its lines; a   *)
(* line is plain text, a blank line, `#pragma once`, `#include` of a file  *)
(* that exists, `#if`, `#elif`, `#else`, `#endif`, `#define` or `#undef`.  *)
(* line.dst is the file of an `#include`, the value of another directive   *)
(* (the text after its name) and, for a text line, the macro use the text  *)
(* holds ("" when it holds none).  The texts name no built-in macro.       *)
(***************************************************************************)
PLine(uri, number, kind, dst) ==
    [uri |-> uri, number |-> number, kind |-> kind, dst |-> dst]

\* readLines(doc): one Line per line of the text, numbered from 0.
readLines(docs, uri) ==
    [i \in 1..Len(docs[uri]) |->
        PLine(uri, i - 1, docs[uri][i].kind, docs[uri][i].dst)]

\* rawLines.findIndex(l => l.uri.fsPath !== uri.fsPath), 0-based, -1 for none
findIndexOther(rawLines, uri) ==
    LET hits == {i \in 1..Len(rawLines) : rawLines[i].uri # uri}
    IN IF hits = {} THEN -1 ELSE (CHOOSE i \in hits : \A j \in hits : i <= j) - 1

\* rawLines.splice(0, n)
spliceFront(rawLines, n) == SubSeq(rawLines, n + 1, Len(rawLines))

MacroNames == {"X"}

\* No entry under that name in result.defines.
NoDefine ==
    [name |-> "", value |-> "", hasArgs |-> FALSE, args |-> <<>>, undef |-> FALSE,
     definition |-> -1]

\* new Define(name, value, definition, args); hasArgs is FALSE when args is
\* undefined, and the definition is known by the number of its line.
Define(name, value, definition, hasArgs, args) ==
    [name |-> name, value |-> value, hasArgs |-> hasArgs, args |-> args,
     undef |-> FALSE, definition |-> definition]

\* value.match(/^(\w+)(?:\((.*?)\))?\s*(.*)/) on the values of the `#define`
\* lines, with the parameter list split at the commas.
DefineMatch(value) ==
    CASE value = "X 1" -> [name |-> "X", hasArgs |-> FALSE, args |-> <<>>, body |-> "1"]
      [] value = "X 2" -> [name |-> "X", hasArgs |-> FALSE, args |-> <<>>, body |-> "2"]
      [] value = "X(a) a" -> [name |-> "X", hasArgs |-> TRUE, args |-> <<"a">>, body |-> "a"]
      [] OTHER -> [name |-> "", hasArgs |-> FALSE, args |-> <<>>, body |-> ""]

\* The macro name the regex /\w+/ finds in a text, and what follows the name.
NameIn(text) == IF text \in {"X", "X(7)"} THEN "X" ELSE ""
AfterName(text) == IF text = "X(7)" THEN "(7)" ELSE ""

\* parseArgs(text)
parseArgs(text) ==
    IF text = "(7)" THEN [args |-> <<"7">>, raw |-> "(7)"] ELSE [args |-> <<>>, raw |-> ""]

\* The body of a macro with its parameters replaced: a word of the body that
\* is a parameter with an argument becomes the argument.
InsertArgs(macro, args) ==
    LET hits == {i \in 1..Len(macro.args) : macro.args[i] = macro.value /\ i <= Len(args)}
    IN IF hits = {} THEN macro.value ELSE args[CHOOSE i \in hits : TRUE]

\* findReplacements(text, defines, loc): the MacroInstances of the text.  The
\* entry of the name is used whether or not it is marked undef; the bodies
\* hold no macro name, so resolve leaves them as they are.
findReplacements(text, defines) ==
    IF NameIn(text) = "" \/ defines[NameIn(text)] = NoDefine THEN <<>>
    ELSE LET macro == defines[NameIn(text)]
             parsed == parseArgs(AfterName(text))
         IN IF ~macro.hasArgs
            THEN <<[raw |-> NameIn(text), insert |-> macro.value]>>
            ELSE <<[raw |-> NameIn(text) \o parsed.raw,
                    insert |-> InsertArgs(macro, parsed.args)]>>

\* replace(text, macros)
replace(text, macros) ==
    IF macros = <<>> THEN text
    ELSE macros[1].insert
         \o (IF macros[1].raw = NameIn(text) THEN AfterName(text) ELSE "")

\* resolve(text, defines, loc)
resolve(text, defines) == replace(text, findReplacements(text, defines))

\* evaluate(text, loc, defines), as the condition of a scope: evaluateExpr of
\* "0" is 0, of another number the number, and undefined for a text that is
\* no expression.
evaluate(text, defines) == resolve(text, defines) \in {"1", "2", "7"}

\* scopes.every(c => c.condition)
every(scopes) == \A i \in 1..Len(scopes) : scopes[i]

\* The preprocessor between two lines: the lines still to process, the files
\* that declared `#pragma once`, the conditional scopes, and the result so
\* far; macros[i] holds the MacroInstances of lines[i].
Preprocess(docs) ==
    [pc |-> "start", files |-> docs, rawLines |-> <<>>, once |-> {},
     scopes |-> <<>>, defines |-> [n \in MacroNames |-> NoDefine],
     lines |-> <<>>, macros |-> <<>>, includes |-> <<>>, steps |-> 0]

\* if (directive[1] === 'if')
if(p, line) ==
    [p EXCEPT !.scopes = Append(@, IF line.dst = "" THEN FALSE
                                   ELSE evaluate(line.dst, p.defines))]

\* if (directive[1] === 'else')
else(p) ==
    IF p.scopes = <<>> THEN p ELSE [p EXCEPT !.scopes[Len(p.scopes)] = ~@]

\* if (directive[1] === 'elif')
elif(p, line) ==
    IF p.scopes = <<>> THEN p
    ELSE IF line.dst = "" THEN [p EXCEPT !.scopes = Append(@, FALSE)]
    ELSE IF p.scopes[Len(p.scopes)] THEN [p EXCEPT !.scopes[Len(p.scopes)] = FALSE]
    ELSE [p EXCEPT !.scopes[Len(p.scopes)] =
             evaluate(resolve(line.dst, p.defines), p.defines)]

\* if (directive[1] === 'endif')
endif(p) ==
    IF p.scopes = <<>> THEN p ELSE [p EXCEPT !.scopes = SubSeq(@, 1, Len(@) - 1)]

\* if (directive[1] === 'define')
define(p, line) ==
    LET d == DefineMatch(line.dst)
        existing == p.defines[d.name]
    IN IF d.name = "" THEN p
       ELSE IF existing # NoDefine /\ ~existing.undef THEN p
       ELSE LET macro == IF existing # NoDefine THEN existing
                         ELSE Define(d.name, d.body, line.number, d.hasArgs, d.args)
            IN [p EXCEPT !.defines[d.name] = [macro EXCEPT !.undef = FALSE]]

\* if (directive[1] === 'undef')
undef(p, line) ==
    IF line.dst = "" THEN p
    ELSE IF p.defines[line.dst] = NoDefine \/ p.defines[line.dst].undef THEN p
    ELSE [p EXCEPT !.defines[line.dst].undef = TRUE]

\* if (directive[1] === 'pragma')
pragma(p, line) ==
    IF line.uri \in p.once
    THEN IF findIndexOther(p.rawLines, line.uri) > 0
         THEN [p EXCEPT !.rawLines =
                  spliceFront(p.rawLines, findIndexOther(p.rawLines, line.uri))]
         ELSE p
    ELSE [p EXCEPT !.once = p.once \cup {line.uri}]

\* if (directive[1] === 'include')
include(p, line) ==
    [p EXCEPT !.includes = Append(p.includes, [loc |-> <<line.uri, line.number>>,
                                               dst |-> line.dst]),
              !.rawLines = readLines(p.files, line.dst) \o p.rawLines]

\* One turn of `while (rawLines.length)`, after the line was taken off.
processLine(p, line) ==
    CASE line.kind = "if" -> if(p, line)
      [] line.kind = "else" -> else(p)
      [] line.kind = "elif" -> elif(p, line)
      [] line.kind = "endif" -> endif(p)
      [] line.kind \in {"define", "undef", "once", "include"} ->
            IF ~every(p.scopes) THEN p
            ELSE CASE line.kind = "define" -> define(p, line)
                   [] line.kind = "undef" -> undef(p, line)
                   [] line.kind = "once" -> pragma(p, line)
                   [] OTHER -> include(p, line)
      [] line.kind = "blank" -> p
      [] OTHER ->
            IF ~every(p.scopes) THEN p
            ELSE [p EXCEPT !.lines = Append(p.lines, <<line.uri, line.number>>),
                           !.macros = Append(p.macros,
                                             findReplacements(line.dst, p.defines))]

MaxLines == 12

PUris == {"M", "A", "B"}

Txt == [kind |-> "text", dst |-> ""]
Blank == [kind |-> "blank", dst |-> ""]
Once == [kind |-> "once", dst |-> ""]
Inc(uri) == [kind |-> "include", dst |-> uri]

RECURSIVE SeqsUpTo(_, _)
SeqsUpTo(S, n) ==
    IF n = 0 THEN {<<>>}
    ELSE SeqsUpTo(S, n - 1)
         \cup {Append(t, x) : t \in {u \in SeqsUpTo(S, n - 1) : Len(u) = n - 1}, x \in S}

MaxRootLines == 3

\* The documents: a root M that includes A and B, headers A and B.
RootDocs == SeqsUpTo({Txt, Blank, Inc("A"), Inc("B")}, MaxRootLines) \ {<<>>}
ATexts == {<<Once, Txt>>, <<Once, Txt, Txt, Blank>>, <<Txt, Once, Txt>>,
           <<Once, Inc("B"), Txt>>}
BTexts == {<<Txt>>, <<Inc("A")>>, <<Once, Inc("A"), Txt, Blank>>}

InitPre ==
    /\ kc = Repository
    /\ disk = NoDisk /\ ver = NoVer /\ ops = 0 /\ pre = NoPre
    /\ ctx = [live |-> FALSE, ov |-> <<>>, m |-> EmptyMemo, n |-> 0]
    /\ ret = EmptyMemo /\ last = NoLast /\ ex = NoEx /\ dt = NoDt
    /\ tq = NoTq /\ pf = NoPf /\ fx = NoFx /\ ty = NoTy /\ rp = NoRp
    /\ \E m \in RootDocs, a \in ATexts, b \in BTexts :
          pp = Preprocess([u \in PUris |->
                             CASE u = "M" -> m [] u = "A" -> a [] OTHER -> b])

\* preprocess(doc, defines, includes) up to its loop
PStart ==
    /\ pp.pc = "start"
    /\ pp' = [pp EXCEPT !.pc = "loop", !.rawLines = readLines(pp.files, "M")]
    /\ UNCHANGED <<kc, disk, ver, ops, pre, ctx, ret, last, ex, dt, tq, pf, fx, ty, rp>>

\* one turn of the loop
PTurn ==
    /\ pp.pc = "loop" /\ pp.rawLines # <<>> /\ pp.steps < MaxLines
    /\ pp' = [processLine([pp EXCEPT !.rawLines = Tail(pp.rawLines)],
                          Head(pp.rawLines))
              EXCEPT !.steps = pp.steps + 1]
    /\ UNCHANGED <<kc, disk, ver, ops, pre, ctx, ret, last, ex, dt, tq, pf, fx, ty, rp>>

\* return result
PReturn ==
    /\ pp.pc = "loop" /\ pp.rawLines = <<>>
    /\ pp' = [pp EXCEPT !.pc = "done"]
    /\ UNCHANGED <<kc, disk, ver, ops, pre, ctx, ret, last, ex, dt, tq, pf, fx, ty, rp>>

NextPre == PStart \/ PTurn \/ PReturn

SpecPre == InitPre /\ [][NextPre]_vars

\* The number of the `#pragma once` line of a file, -1 when it has none.
PragmaLine(uri) ==
    LET hits == {i \in 1..Len(pp.files[uri]) : pp.files[uri][i].kind = "once"}
    IN IF hits = {} THEN -1 ELSE (CHOOSE i \in hits : \A j \in hits : i <= j) - 1

AfterPragma(l) == l[1] \in pp.once /\ l[2] > PragmaLine(l[1])

\* C20 as stated: a line after the `#pragma once` of its file is emitted at
\* most once, and an `#include` after it is processed at most once, in one
\* run of the preprocessor.
C20_OnceOnly ==
    pp.pc \in {"loop", "done"} =>
        /\ \A i, j \in 1..Len(pp.lines) :
              (i < j /\ pp.lines[i] = pp.lines[j]) => ~AfterPragma(pp.lines[i])
        /\ \A i, j \in 1..Len(pp.includes) :
              (i < j /\ pp.includes[i].loc = pp.includes[j].loc)
                  => ~AfterPragma(pp.includes[i].loc)

(***************************************************************************)
(* SpecCond: the preprocessor on a root document that is a conditional     *)
(* chain, with a text line in every branch and a text line before and      *)
(* after the chain, or up to MaxMacroLines lines that define, undefine and *)
(* use the macro X.                                                        *)
(***************************************************************************)
If(c) == [kind |-> "if", dst |-> c]
Elif(c) == [kind |-> "elif", dst |-> c]
Else == [kind |-> "else", dst |-> ""]
Endif == [kind |-> "endif", dst |-> ""]
DefineLine(v) == [kind |-> "define", dst |-> v]
Undef(n) == [kind |-> "undef", dst |-> n]
Use(t) == [kind |-> "text", dst |-> t]

MaxElifs == 3
MaxMacroLines == 5

Conditions == {"0", "1"}

RECURSIVE ElifBranches(_)
ElifBranches(cs) ==
    IF cs = <<>> THEN <<>> ELSE <<Elif(Head(cs)), Txt>> \o ElifBranches(Tail(cs))

ChainDocs ==
    {<<Txt, If(c), Txt>> \o ElifBranches(cs) \o tail \o <<Endif, Txt>> :
        c \in Conditions, cs \in SeqsUpTo(Conditions, MaxElifs),
        tail \in {<<>>, <<Else, Txt>>}}

MacroDocs ==
    {d \in SeqsUpTo({DefineLine("X 1"), DefineLine("X 2"), DefineLine("X(a) a"),
                     Undef("X"), Use("X"), Use("X(7)")}, MaxMacroLines) :
        d # <<>> /\ d[Len(d)].kind = "text" /\ d[1].kind = "define"}

InitCond ==
    /\ kc = Repository
    /\ disk = NoDisk /\ ver = NoVer /\ ops = 0 /\ pre = NoPre
    /\ ctx = [live |-> FALSE, ov |-> <<>>, m |-> EmptyMemo, n |-> 0]
    /\ ret = EmptyMemo /\ last = NoLast /\ ex = NoEx /\ dt = NoDt
    /\ tq = NoTq /\ pf = NoPf /\ fx = NoFx /\ ty = NoTy /\ rp = NoRp
    /\ \E m \in ChainDocs \cup MacroDocs :
          pp = Preprocess([u \in PUris |-> IF u = "M" THEN m ELSE <<Txt>>])

SpecCond == InitCond /\ [][NextPre]_vars

Root == pp.files["M"]

\* The line (numbered from 0) lies in a branch of the chain of the root.
InChain(n) ==
    /\ \E k \in 1..n : Root[k].kind = "if"
    /\ ~\E k \in 1..n : Root[k].kind = "endif"

\* The branch of the chain a line lies in: 1 for the branch of `#if`.
BranchOf(n) == Cardinality({k \in 1..n : Root[k].kind \in {"if", "elif", "else"}})

\* The branches of the chain of which a line was emitted.
EmittedBranches == {BranchOf(l[2]) : l \in {l \in Range(pp.lines) : InChain(l[2])}}

\* C26: of an `#if` / `#elif` / `#else` / `#endif` chain the lines of at most
\* one branch are emitted.
C26_AtMostOneBranch ==
    pp.pc \in {"loop", "done"} => Cardinality(EmittedBranches) <= 1

\* The last of the lines before line n (numbered from 0) of the root that is
\* of the kind; 0 when there is none.
LastBefore(n, kind) ==
    LET hits == {k \in 1..n : Root[k].kind = kind}
    IN IF hits = {} THEN 0 ELSE CHOOSE k \in hits : \A j \in hits : j <= k

\* The line uses X after `#undef X` followed by `#define X`: the last `#undef`
\* before it has a `#define` before it and exactly one `#define` behind it.
Redefined(n) ==
    LET u == LastBefore(n, "undef")
    IN /\ NameIn(Root[n + 1].dst) = "X"
       /\ u # 0
       /\ \E k \in 1..u : Root[k].kind = "define"
       /\ Cardinality({k \in u..n : Root[k].kind = "define"}) = 1

\* The MacroInstances of a text when X is what the `#define` of a line says.
ExpandedAs(text, k) ==
    LET d == DefineMatch(Root[k].dst)
    IN findReplacements(text, [m \in MacroNames |->
                                 Define(d.name, d.body, k - 1, d.hasArgs, d.args)])

\* C27: a use of X after `#undef X` followed by `#define X` expands with the
\* body and the parameters of that `#define`.
C27_RedefinitionWins ==
    \A i \in 1..Len(pp.lines) :
        (pp.lines[i][1] = "M" /\ Root \in MacroDocs /\ Redefined(pp.lines[i][2])) =>
            LET n == pp.lines[i][2]
            IN pp.macros[i] = ExpandedAs(Root[n + 1].dst, LastBefore(n, "define"))

(***************************************************************************)
(* TypeLoader.nodeType (dtsTypes.ts) and the type resolution at the end of *)
(* Parser.parse (dts.ts).  A node is kept with the components of its path; *)
(* a type is a record, the type loader a table from names to the types     *)
(* loaded under that name.                                                 *)
(***************************************************************************)
NoType == [name |-> "", valid |-> FALSE, child |-> "", bus |-> "", onBus |-> ""]

\* new NodeType(tree): child names the type made from patternProperties.
NodeType(name, child, bus, onBus) ==
    [name |-> name, valid |-> TRUE, child |-> child, bus |-> bus, onBus |-> onBus]

\* TypeLoader.baseType, an AbstractNodeType
baseType == [name |-> "<unknown>", valid |-> FALSE, child |-> "", bus |-> "",
             onBus |-> ""]

\* The type a NodeType holds in its child field.
ChildOf(t) == NodeType(t.child, "", "", "")

\* standardTypes, as far as the paths of the model reach
standardTypes ==
    <<NodeType("/", "", "", ""), NodeType("/cpus/", "", "", ""),
      NodeType("/cpus/cpu", "", "", ""), NodeType("/chosen/", "", "", "")>>

\* TypeLoader.addType
addType(types, t) ==
    IF t.name \in DOMAIN types
    THEN [types EXCEPT ![t.name] = Append(@, t)]
    ELSE [n \in DOMAIN types \cup {t.name} |->
             IF n = t.name THEN <<t>> ELSE types[n]]

RECURSIVE AddTypes(_, _, _)
AddTypes(types, ts, i) ==
    IF i > Len(ts) THEN types ELSE AddTypes(addType(types, ts[i]), ts, i + 1)

\* new TypeLoader()
TypeLoader == AddTypes([n \in {} |-> <<>>], standardTypes, 1)

\* TypeLoader.get
get(types, name) == IF name \in DOMAIN types THEN types[name] ELSE <<>>

\* A node of the tree: the components of its path (each a name and an
\* address), the strings of its compatible property, its parent and type.
TNode(parts, compatible, parent) ==
    [parts |-> parts, compatible |-> compatible, parent |-> parent, type |-> NoType]

\* Node.fullName
FullName(part) ==
    IF part.address # "" THEN part.name \o "@" \o part.address ELSE part.name

\* Node.path: parent.path + fullName + '/'
RECURSIVE PathOf(_)
PathOf(parts) ==
    IF parts = <<>> THEN "/"
    ELSE PathOf(SubSeq(parts, 1, Len(parts) - 1)) \o FullName(parts[Len(parts)]) \o "/"

\* Node.name
NameOf(node) == IF node.parts = <<>> THEN "/" ELSE node.parts[Len(node.parts)].name

\* name.replace(/s$/, ''), on the names of the model
WithoutS(name) ==
    CASE name = "leds" -> "led"
      [] name = "cpus" -> "cpu"
      [] OTHER -> name

\* node.path.match(/\/cpus\/cpu[^/]*\/$/): the last component starts with
\* `cpu` and the one before it is `cpus`.
IsCpuPath(node) ==
    /\ Len(node.parts) >= 2
    /\ FullName(node.parts[Len(node.parts) - 1]) = "cpus"
    /\ node.parts[Len(node.parts)].name \in {"cpu", "cpus"}

\* The candidates with the name tried before the compatible strings.
NameBeforeCompatible(node) ==
    <<PathOf(node.parts), NameOf(node), WithoutS(NameOf(node))>> \o node.compatible
        \o (IF IsCpuPath(node) THEN <<"/cpus/cpu">> ELSE <<>>)

\* candidates of getBaseType
Candidates21(node) ==
    <<PathOf(node.parts)>> \o node.compatible
        \o <<NameOf(node), WithoutS(NameOf(node))>>
        \o (IF IsCpuPath(node) THEN <<"/cpus/cpu">> ELSE <<>>)

\* candidates.some(c => (types = this.get(c)).length): the types of the
\* first candidate that has any.
FirstTyped(types, cands) ==
    LET hits == {i \in 1..Len(cands) : get(types, cands[i]) # <<>>}
    IN IF hits = {} THEN <<>>
       ELSE get(types, cands[CHOOSE i \in hits : \A j \in hits : i <= j])

\* getBaseType
getBaseType(types, nodes, node) ==
    IF FirstTyped(types, Candidates21(node)) # <<>>
    THEN FirstTyped(types, Candidates21(node))
    ELSE IF node.parent # 0 /\ nodes[node.parent].type # NoType
            /\ nodes[node.parent].type.child # ""
    THEN <<ChildOf(nodes[node.parent].type)>>
    ELSE <<>>

\* types.find(t => node.parent.type.bus === t.onBus) ?? types[0]
OnBusOf(ts, bus) ==
    LET hits == {i \in 1..Len(ts) : ts[i].onBus = bus}
    IN IF hits = {} THEN ts[1] ELSE ts[CHOOSE i \in hits : \A j \in hits : i <= j]

\* TypeLoader.nodeType
nodeType(types, nodes, node) ==
    LET found == getBaseType(types, nodes, node)
        ts == IF found = <<>> THEN <<baseType>> ELSE found
    IN IF node.parent # 0 /\ nodes[node.parent].type # NoType /\ Len(ts) > 1
       THEN OnBusOf(ts, nodes[node.parent].type.bus)
       ELSE ts[1]

\* Parser.parse, `Resolve types`: every node of ctx.nodes whose type is not
\* valid, in the order of the table.
RECURSIVE ResolveTypes(_, _, _)
ResolveTypes(types, nodes, i) ==
    IF i > Len(nodes) THEN nodes
    ELSE IF nodes[i].type.valid THEN ResolveTypes(types, nodes, i + 1)
    ELSE ResolveTypes(types,
            [nodes EXCEPT ![i].type = nodeType(types, nodes, nodes[i])], i + 1)

(***************************************************************************)
(* Type resolution over small trees and sets of bindings.                  *)
(***************************************************************************)
Part(name, address) == [name |-> name, address |-> address]

\* The bindings a folder may hold: a parent binding with a child binding on
\* an spi bus, two bindings of one compatible on different buses, bindings
\* found by name.
Bindings ==
    {NodeType("vnd,p", "vnd,p-child", "spi", ""),
     NodeType("vnd,a", "", "", ""),
     NodeType("vnd,b", "", "", "i2c"),
     NodeType("vnd,b", "", "", "spi"),
     NodeType("leds", "", "", ""),
     NodeType("led", "", "", ""),
     NodeType("cpu", "", "", "")}

LeafParts == {Part("cpu", "0"), Part("leds", ""), Part("x", "")}
ParentParts == {<<Part("soc", "")>>, <<Part("cpus", "")>>,
                <<Part("soc", ""), Part("cpus", "")>>}
LeafCompatibles == {<<>>, <<"vnd,a">>, <<"vnd,b">>, <<"vnd,b", "vnd,a">>}

\* ctx.nodes of a tree: the root, the ancestors of the leaf, the leaf.
TreeNodes(up, leaf, pc, lc) ==
    [i \in 1..(Len(up) + 2) |->
        IF i = 1 THEN TNode(<<>>, <<>>, 0)
        ELSE IF i = Len(up) + 2 THEN TNode(Append(up, leaf), lc, i - 1)
        ELSE TNode(SubSeq(up, 1, i - 1), IF i = Len(up) + 1 THEN pc ELSE <<>>, i - 1)]

InitType ==
    /\ kc = Repository
    /\ disk = NoDisk /\ ver = NoVer /\ ops = 0 /\ pre = NoPre
    /\ ctx = [live |-> FALSE, ov |-> <<>>, m |-> EmptyMemo, n |-> 0]
    /\ ret = EmptyMemo /\ last = NoLast /\ ex = NoEx /\ dt = NoDt
    /\ tq = NoTq /\ pf = NoPf /\ pp = NoPp /\ fx = NoFx /\ rp = NoRp
    /\ \E bs \in SUBSET Bindings, up \in ParentParts, leaf \in LeafParts,
          pc \in {<<>>, <<"vnd,p">>}, lc \in LeafCompatibles :
          ty = [pc |-> "loaded",
                types |-> AddTypes(TypeLoader, SetToSeq(bs), 1),
                nodes |-> TreeNodes(up, leaf, pc, lc)]

\* Parser.parse reaches `Resolve types`
TResolve ==
    /\ ty.pc = "loaded"
    /\ ty' = [ty EXCEPT !.pc = "typed", !.nodes = ResolveTypes(ty.types, ty.nodes, 1)]
    /\ UNCHANGED <<kc, disk, ver, ops, pre, ctx, ret, last, ex, dt, tq, pf, pp, fx, rp>>

NextType == TResolve

SpecType == InitType /\ [][NextType]_vars

\* The leaf of the tree and its parent.
Leaf == ty.nodes[Len(ty.nodes)]
LeafParent == ty.nodes[Leaf.parent]

\* The type the stated order gives a node, given the candidates to try.
InOrder(cands) ==
    IF \E i \in 1..Len(cands) : get(ty.types, cands[i]) # <<>>
    THEN \E i \in 1..Len(cands) :
            /\ get(ty.types, cands[i]) # <<>>
            /\ \A j \in 1..(i - 1) : get(ty.types, cands[j]) = <<>>
            /\ \E k \in 1..Len(get(ty.types, cands[i])) :
                  Leaf.type = get(ty.types, cands[i])[k]
    ELSE IF LeafParent.type.child # ""
    THEN Leaf.type.valid /\ Leaf.type.name = LeafParent.type.child
    ELSE Leaf.type = baseType

\* C21 as stated: the candidates are the path, the compatible strings, the
\* name and the name without a trailing s; with none of them bound the node
\* gets the child type of its parent's type, and only otherwise the unknown
\* type.
C21_FourCandidates ==
    ty.pc = "typed" =>
        InOrder(<<PathOf(Leaf.parts)>> \o Leaf.compatible
                    \o <<NameOf(Leaf), WithoutS(NameOf(Leaf))>>)

\* C21 amended: a node whose path ends in /cpus/cpu.../ has `/cpus/cpu` as a
\* fifth candidate, tried after the other four and before the child type of
\* the parent's type.
C21_CandidateOrder ==
    ty.pc = "typed" =>
        InOrder(<<PathOf(Leaf.parts)>> \o Leaf.compatible
                    \o <<NameOf(Leaf), WithoutS(NameOf(Leaf))>>
                    \o (IF IsCpuPath(Leaf) THEN <<"/cpus/cpu">> ELSE <<>>))

\* The leaf has a compatible string and a name that are both bound, and got the
\* type of the compatible string.
C21_Witness ==
    /\ ty.pc = "typed"
    /\ Leaf.compatible = <<"vnd,a">> /\ NameOf(Leaf) = "leds"
    /\ get(ty.types, "vnd,a") # <<>> /\ get(ty.types, "leds") # <<>>
    /\ Leaf.type.name = "vnd,a"

(***************************************************************************)
(* Parser (dts.ts) with its asynchronous reparse, and the typing timer of  *)
(* util.ts.  A DTSFile is kept with the version of the text it was parsed  *)
(* from; DTSFile.dirty is true in the constructor and never set to false,  *)
(* so every file a reparse removed is opened and parsed again.  A reparse  *)
(* is suspended at `await openTextDocument` and at `await this.parse`.     *)
(***************************************************************************)
NoFile == [uri |-> "", read |-> -1, inc |-> {}]

\* new DTSFile(uri, ctx), not parsed
NewFile(uri) == [uri |-> uri, read |-> -1, inc |-> {}]

\* The files a text includes (result.includes of preprocess).
IncludesOf(uri) == IF uri = "B1" THEN {"I"} ELSE {}

\* DTSFile.has
fileHas(f, uri) == f # NoFile /\ (f.uri = uri \/ uri \in f.inc)

\* DTSCtx.has
contextHas(c, uri) ==
    fileHas(c.boardFile, uri) \/ \E i \in 1..Len(c.overlays) : fileHas(c.overlays[i], uri)

\* new DTSCtx()
NewCtx == [boardFile |-> NoFile, overlays |-> <<>>, dirty |-> <<>>, parsing |-> FALSE]

\* [...this.appCtx, ...this.boardCtx].filter(ctx => ctx.has(uri))
\*     .forEach(ctx => ctx.dirty.push(uri))
pushDirty(r, uri) ==
    [r EXCEPT !.ctxs = [c \in 1..Len(r.ctxs) |->
        IF contextHas(r.ctxs[c], uri)
        THEN [r.ctxs[c] EXCEPT !.dirty = Append(@, uri)] ELSE r.ctxs[c]]]

\* Parser.ctx(uri): the current context when it has the file, else the first
\* context that has it (0 for undefined).
ctxOf(r, uri) ==
    IF r.curr # 0 /\ contextHas(r.ctxs[r.curr], uri) THEN r.curr
    ELSE LET hits == {c \in 1..Len(r.ctxs) : contextHas(r.ctxs[c], uri)}
         IN IF hits = {} THEN 0 ELSE CHOOSE c \in hits : \A k \in hits : c <= k

\* Parser.reparse(ctx) up to its first await: ctx.reset(), then either the
\* await of openTextDocument for the board file, or adoptNodes(null), which
\* throws.
startReparse(r, c) ==
    LET removed == [board |-> r.ctxs[c].boardFile, overlays |-> r.ctxs[c].overlays]
        task == [c |-> c, pc |-> IF removed.board # NoFile THEN "open" ELSE "failed",
                 board |-> removed.board, overlays |-> removed.overlays,
                 i |-> 0, read |-> -1]
    IN [r EXCEPT !.ctxs[c] = [NewCtx EXCEPT !.parsing = TRUE],
                 !.tasks = Append(@, task)]

\* The uri of the file a suspended reparse is opening or parsing.
TaskUri(t) == IF t.i = 0 THEN t.board.uri ELSE t.overlays[t.i].uri

\* A reparse resumes from `await openTextDocument`: this.parse starts, and
\* preprocess reads the text of the document.
resumeOpen(r, k) ==
    [r EXCEPT !.tasks[k].pc = "parse", !.tasks[k].read = r.docs[TaskUri(r.tasks[k])]]

\* A reparse resumes from `await this.parse`: the file joins the context,
\* then the loop goes on to the next overlay or the reparse ends.
resumeParse(r, k) ==
    LET t == r.tasks[k]
        file == [uri |-> TaskUri(t), read |-> t.read,
                 inc |-> IncludesOf(TaskUri(t)) \ r.deleted]
        r1 == IF t.i = 0 THEN [r EXCEPT !.ctxs[t.c].boardFile = file]
              ELSE [r EXCEPT !.ctxs[t.c].overlays = Append(@, file)]
    IN IF t.i < Len(t.overlays)
       THEN [r1 EXCEPT !.tasks[k].pc = "open", !.tasks[k].i = t.i + 1]
       ELSE [r1 EXCEPT !.tasks[k].pc = "done", !.ctxs[t.c].parsing = FALSE]

\* Parser.onDidChange once the user stopped typing
ParserOnDidChange(r, uri) ==
    LET r1 == pushDirty(r, uri)
    IN IF r1.curr # 0 /\ ~r1.ctxs[r1.curr].parsing THEN startReparse(r1, r1.curr)
       ELSE r1

\* Parser.onDidChangetextEditor for an editor of a file some context has
onDidChangetextEditor(r, uri) ==
    LET r1 == [r EXCEPT !.curr = ctxOf(r, uri)]
    IN IF r1.ctxs[r1.curr].dirty # <<>> THEN startReparse(r1, r1.curr) ELSE r1

\* onDidDeleteFiles for a file that is no context's board file or only overlay
onDidDeleteFiles(r, uri) ==
    LET r1 == pushDirty([r EXCEPT !.deleted = @ \cup {uri}], uri)
    IN IF r1.curr # 0 /\ r1.ctxs[r1.curr].dirty # <<>> THEN startReparse(r1, r1.curr)
       ELSE r1

\* Parser.insertOverlays(uri), with DTSCtx.insertOverlay
insertOverlays(r, uri) ==
    IF r.curr = 0 THEN r
    ELSE startReparse(
            [r EXCEPT !.ctxs[r.curr].overlays = <<NewFile(uri)>> \o @,
                      !.ctxs[r.curr].dirty = Append(@, uri)], r.curr)

\* The files a context was made of: its board file and its overlays.
BoardOf(c) == IF c = 1 THEN "B1" ELSE "B2"
GivenUris(r, c) == {BoardOf(c)} \cup {r.want[c][i] : i \in 1..Len(r.want[c])}

MaxTriggers == 3
MaxVersion == 2

DtsDocs == {"B1", "O1", "B2"}

ParsedFile0(uri) == [uri |-> uri, read |-> 0, inc |-> IncludesOf(uri)]

\* Two contexts parsed from the first text of their files; the first is the
\* current one.  want is the list of overlays each context was given.
InitReparse ==
    /\ kc = Repository
    /\ disk = NoDisk /\ ver = NoVer /\ ops = 0 /\ pre = NoPre
    /\ ctx = [live |-> FALSE, ov |-> <<>>, m |-> EmptyMemo, n |-> 0]
    /\ ret = EmptyMemo /\ last = NoLast /\ ex = NoEx /\ dt = NoDt
    /\ tq = NoTq /\ pf = NoPf /\ pp = NoPp /\ fx = NoFx /\ ty = NoTy
    /\ rp = [pc |-> "ready",
             docs |-> [u \in DtsDocs \cup {"O2"} |-> 0],
             deleted |-> {},
             ctxs |-> <<[NewCtx EXCEPT !.boardFile = ParsedFile0("B1"),
                                       !.overlays = <<ParsedFile0("O1")>>],
                        [NewCtx EXCEPT !.boardFile = ParsedFile0("B2")]>>,
             curr |-> 1,
             tasks |-> <<>>,
             typing |-> FALSE, timer |-> FALSE, ev |-> "",
             burst |-> {}, want |-> <<<<"O1">>, <<>>>>,
             late |-> 0, last |-> ""]

RpHandled(kind) ==
    /\ ops' = ops + 1
    /\ UNCHANGED <<kc, disk, ver, pre, ctx, ret, last, ex, dt, tq, pf, pp, fx, ty>>

\* A change of a document: the listener of util.ts sets the typing flag and
\* restarts the timer, then Parser.onDidChange returns because isTyping.
REdit(uri) ==
    /\ rp.pc = "ready" /\ ops < MaxTriggers /\ rp.docs[uri] < MaxVersion
    /\ rp' = [rp EXCEPT !.docs[uri] = @ + 1, !.typing = TRUE, !.timer = TRUE,
                        !.ev = uri,
                        !.burst = IF rp.timer THEN @ \cup {uri} ELSE {uri},
                        !.last = "edit"]
    /\ RpHandled("edit")

\* The timer of util.ts fires: the typing flag is cleared and the callback,
\* Parser.onDidChange, runs with the event the timer was started for.
RSettle ==
    /\ rp.pc = "ready" /\ rp.timer
    /\ rp' = [ParserOnDidChange([rp EXCEPT !.typing = FALSE, !.timer = FALSE], rp.ev)
                 EXCEPT !.last = "settle",
                        !.late = IF @ = 0 /\ rp.curr # 0 /\ rp.ctxs[rp.curr].parsing
                                       /\ rp.ev \in GivenUris(rp, rp.curr)
                                 THEN rp.curr ELSE @]
    /\ UNCHANGED <<kc, disk, ver, ops, pre, ctx, ret, last, ex, dt, tq, pf, pp, fx, ty>>

\* The active editor changes to a file of some context
RFocus(uri) ==
    /\ rp.pc = "ready" /\ ops < MaxTriggers /\ ctxOf(rp, uri) # 0
    /\ rp' = [onDidChangetextEditor(rp, uri) EXCEPT !.last = "focus"]
    /\ RpHandled("focus")

\* An included file is deleted
RDelete(uri) ==
    /\ rp.pc = "ready" /\ ops < MaxTriggers /\ uri \notin rp.deleted
    /\ rp' = [onDidDeleteFiles(rp, uri) EXCEPT !.last = "delete"]
    /\ RpHandled("delete")

\* The user adds an overlay to the current context
RInsert(uri) ==
    /\ rp.pc = "ready" /\ ops < MaxTriggers /\ rp.curr # 0
    /\ \A c \in 1..Len(rp.want) : \A i \in 1..Len(rp.want[c]) : rp.want[c][i] # uri
    /\ rp' = [insertOverlays(rp, uri) EXCEPT !.want[rp.curr] = <<uri>> \o @,
                                              !.last = "insert"]
    /\ RpHandled("insert")

\* A suspended reparse resumes
RResume(k) ==
    /\ rp.pc = "ready" /\ k \in 1..Len(rp.tasks)
    /\ rp.tasks[k].pc \in {"open", "parse"}
    /\ rp' = [IF rp.tasks[k].pc = "open" THEN resumeOpen(rp, k) ELSE resumeParse(rp, k)
                 EXCEPT !.last = "resume"]
    /\ UNCHANGED <<kc, disk, ver, ops, pre, ctx, ret, last, ex, dt, tq, pf, pp, fx, ty>>

NextReparse ==
    \/ \E uri \in DtsDocs : REdit(uri)
    \/ RSettle
    \/ \E uri \in DtsDocs : RFocus(uri)
    \/ RDelete("I")
    \/ RInsert("O2")
    \/ \E k \in 1..MaxTriggers : RResume(k)

SpecReparse == InitReparse /\ [][NextReparse]_vars

\* Suspended reparses resume and the timer fires; the user owes nothing.
FairReparse ==
    /\ SpecReparse
    /\ WF_vars(RSettle)
    /\ \A k \in 1..MaxTriggers : WF_vars(RResume(k))

InFlightReparse == \E k \in 1..Len(rp.tasks) : rp.tasks[k].pc \in {"open", "parse"}

OverlayUrisOf(c) == [i \in 1..Len(c.overlays) |-> c.overlays[i].uri]

\* C22 as stated: once every started reparse has finished, each context has
\* its board file and the overlays it was given, each once and in order, and
\* no reparse has failed.
C22_ReparsesDoNotInterfere ==
    (rp.pc = "ready" /\ ~InFlightReparse) =>
        /\ \A k \in 1..Len(rp.tasks) : rp.tasks[k].pc # "failed"
        /\ rp.ctxs[1].boardFile.uri = "B1" /\ rp.ctxs[2].boardFile.uri = "B2"
        /\ \A c \in 1..2 : OverlayUrisOf(rp.ctxs[c]) = rp.want[c]

\* Every file of the context was parsed from the current text of its
\* document, and nothing is dirty or being parsed.
UpToDate(c) ==
    /\ ~rp.ctxs[c].parsing /\ rp.ctxs[c].dirty = <<>>
    /\ rp.ctxs[c].boardFile # NoFile
    /\ rp.ctxs[c].boardFile.read = rp.docs[rp.ctxs[c].boardFile.uri]
    /\ \A i \in 1..Len(rp.ctxs[c].overlays) :
          rp.ctxs[c].overlays[i].read = rp.docs[rp.ctxs[c].overlays[i].uri]

\* C23 as stated: an edit to a file of the current context that is delivered
\* while the context is being reparsed leads, with no further user action,
\* to a context that is up to date with the text of its files.
C23_LateEditNotLost ==
    (rp.pc = "ready" /\ rp.late # 0) ~> (rp.late # 0 /\ UpToDate(rp.late))

\* The reparse of the context has just started and has read no text yet.
JustStarted(c) ==
    \E k \in 1..Len(rp.tasks) :
        rp.tasks[k].c = c /\ rp.tasks[k].pc = "open" /\ rp.tasks[k].i = 0

\* C29 as stated: when a typing burst has settled, every context made of a
\* file that was edited in the burst has the file in its dirty list, unless
\* its reparse has just started.
C29_BurstMarksEveryContext ==
    (rp.pc = "ready" /\ rp.last = "settle") =>
        \A c \in 1..2 : \A uri \in rp.burst :
            (uri \in GivenUris(rp, c) /\ ~JustStarted(c)) =>
                \E i \in 1..Len(rp.ctxs[c].dirty) : rp.ctxs[c].dirty[i] = uri

====
